---- MODULE Spec2Model ----
(***************************************************************************)
(* Model of the resilient delivery engine of connector-http:               *)
(*   - internal/http  RetryEngine.Do / calculateBackoff / isRetryable and  *)
(*     Client.Post (src/unnamed/part_004),                                 *)
(*   - internal/auth  OAuth2Auth.Authenticate (src/unnamed/part_003).      *)
(* SpecRetry runs one RetryEngine.Do call whose delivery function is the   *)
(* closure Destination.Write passes: Client.Post.                          *)
(***************************************************************************)
EXTENDS Integers, Sequences, FiniteSets, TLC

VARIABLES
    config,      \* RetryEngine.config (RetryConfig), immutable after NewRetryEngine
    ctxDone,     \* the surrounding context has been cancelled (ctx.Done() closed)
    pc,          \* position of the Do call
    attempt,     \* loop variable of Do
    lastErr,     \* Do's lastErr
    lastResp,    \* Do's lastResp (the response object, body state included)
    backoff,     \* duration of the timer of the current wait
    timerFired,  \* the channel of time.After(backoff) has a value
    woken,       \* select case that woke the blocked Do: "none", "timer", "ctx"
    ret,         \* what Do returned: [resp, err]
    calls,       \* number of invocations of the delivery function
    seen,        \* outcomes the delivery function has produced so far
    lastOut,     \* outcome of the most recent invocation of the delivery function
    waits,       \* backoff durations of the waits started so far, in order
    cancelAt,    \* position of Do when the context was cancelled
    callsAtCancel \* value of calls when the context was cancelled

VARIABLES
    now,         \* wall clock read by the token cache
    tsMu,        \* per token source: the caller holding its lock, 0 when free
    tsTok,       \* per token source: the cached token
    apc,         \* per caller: position of its Authenticate call
    src,         \* per caller: the token source its current call uses
    got,         \* per caller: the token its Token() call returned
    hdr,         \* per caller: access token in the request's Authorization header
    aerr,        \* per caller: its last Authenticate call returned an error
    ncalls,      \* per caller: number of Authenticate calls started
    endpointCalls, \* requests that reached the token endpoint
    issued,      \* number of tokens the endpoint issued
    firstTok,    \* the first token the endpoint issued
    peak,        \* largest number of callers inside Authenticate at once
    lastTok,     \* the token the endpoint granted most recently
    readTok,     \* per caller: lastTok, and the instant, when its call read the cache
    obtAt,       \* per caller: instant its Token() call returned the token
    retAt,       \* per caller: instant its call wrote the header and returned
    renewals     \* per caller: renewal requests its current call has sent

authVars == <<now, tsMu, tsTok, apc, src, got, hdr, aerr, ncalls,
              endpointCalls, issued, firstTok, peak, lastTok, readTok, obtAt,
              retAt, renewals>>

VARIABLES
    records,     \* the batch handed to Write
    usePayloadAfter, \* config.UsePayloadAfter
    idx,         \* loop index i of Write
    wpc,         \* position of Write: "idle", "loop", "do", "returned"
    body,        \* request body prepared for records[i]
    successFile, \* ResponseRecords encoded to the success file, in order
    errorFile,   \* ResponseRecords encoded to the error file, in order
    sinkCalls,   \* calls of WriteSuccess and WriteError, in order
    deliveries,  \* per record handed to Do: what Do did and returned
    wret         \* what Write returned: <<count, err>>

writeVars == <<records, usePayloadAfter, idx, wpc, body, successFile,
               errorFile, sinkCalls, deliveries, wret>>

VARIABLES
    kafkaEnabled, \* config.KafkaEnabled
    kafkaTopic   \* messages produced to the configured Kafka topic, in order

kafkaVars == <<kafkaEnabled, kafkaTopic>>

VARIABLES
    wmu,         \* Writer.mu: the worker holding it, 0 when free
    kpc,         \* per worker: position of its WriteSuccess/WriteError call
    krec,        \* per worker: the record its call is about
    ksink,       \* per worker: the file its call writes to
    kcid,        \* per worker: correlation ID of the ResponseRecord it built
    kcall,       \* per worker: number of the Writer call it is in
    sinkFiles,   \* per file: the chunks written to it, in order
    uuids,       \* number of identifiers uuid.New() has handed out
    nwrites,     \* number of Writer calls started
    fileClosed,  \* per file: Close() has been called on it
    tpc          \* position of Writer.Close: "idle", "closing", "returned"

writerVars == <<wmu, kpc, krec, ksink, kcid, kcall, sinkFiles, uuids,
                nwrites, fileClosed, tpc>>

VARIABLES
    cfgMethod,   \* config.Method
    staticHeaders, \* keys of Client.staticHeaders
    envHeaders,  \* keys of Client.envHeaders
    authType,    \* Type() of the Client's auth manager
    cpc,         \* position of Client.Post: "idle", "posted"
    req,         \* the request Post built, NoRequest when it built none
    sent,        \* httpClient.Do was called with the request
    pout,        \* what Post met
    presp,       \* response Post returned
    perr         \* error Post returned

clientVars == <<cfgMethod, staticHeaders, envHeaders, authType, cpc, req,
                sent, pout, presp, perr>>

VARIABLES
    mcfg,        \* the auth.Config given to NewManager
    mpc,         \* position of NewManager: "idle", "returned"
    mgr,         \* the Manager NewManager returned
    merr         \* the error NewManager returned

managerVars == <<mcfg, mpc, mgr, merr>>

VARIABLES
    dconfig,     \* Destination.config
    opc,         \* position of Open
    authManager, \* Destination.authManager
    httpClient,  \* Destination.httpClient is set
    retryEngine, \* Destination.retryEngine: its RetryConfig, NoEngine when nil
    responseWriter, \* Destination.responseWriter is set
    operr        \* the error Open returned

openVars == <<dconfig, opc, authManager, httpClient, retryEngine,
              responseWriter, operr>>

VARIABLES
    producerCfg, \* the kafka.Config given to NewProducer
    producerPc,  \* position of NewProducer
    producerOpts, \* opts: the kgo options collected, in order
    producer,    \* a *Producer was returned
    clientOpen,  \* the kgo.Client NewProducer created is open
    producerErr  \* the error NewProducer returned

producerVars == <<producerCfg, producerPc, producerOpts, producer,
                  clientOpen, producerErr>>

VARIABLES
    sconfig,     \* RetryConfig of the delivery's engine
    sauthType,   \* Type() of the Client's auth manager
    sctxDone,    \* the context of the delivery has been cancelled
    spc,         \* the operation the delivery is in
    sattempt,    \* loop variable of Do
    tokenCached, \* the token source holds a valid token
    sresp,       \* status of the response Do returned, 0 for none
    serr,        \* kind of error Do returned, "nil" for none
    cancelledIn  \* the operation the delivery was in when ctx was cancelled

suspendVars == <<sconfig, sauthType, sctxDone, spc, sattempt, tokenCached,
                 sresp, serr, cancelledIn>>

\* the parts added to the units above
moreVars == <<openVars, producerVars, suspendVars>>

unitVars == <<writerVars, clientVars, managerVars, moreVars>>

retryVars == <<config, ctxDone, pc, attempt, lastErr, lastResp, backoff,
               timerFired, woken, ret, calls, seen, lastOut, waits,
               cancelAt, callsAtCancel>>

vars == <<retryVars, authVars, writeVars, kafkaVars, unitVars>>

----------------------------------------------------------------------------
(* Program constants and the inputs the model enumerates *)

\* Config.Validate accepts MaxRetries in 0..10
MaxRetriesLimit == 10

\* time.Duration is an int64 count of nanoseconds.  Durations are counted
\* here in ticks of 2^34 ns, so an int64 is a signed tick count of 64-34
\* bits and the wrap-around of the multiplication is kept.
DurationBits == 30

HugeBase == 2^(DurationBits - 2)

\* RetryBackoffBase / RetryBackoffMax values (ticks); Validate does not
\* restrict them
BackoffBases == {0, 1, 3, HugeBase}
BackoffMaxes == {30}

\* HTTP status codes a server may answer with
Statuses == {199, 200, 299, 300, 404, 429, 499, 500, 599, 600}

StatusTooManyRequests == 429

RetryConfig ==
    [MaxRetries : 0..MaxRetriesLimit,
     BackoffBase : BackoffBases,
     BackoffMax : BackoffMaxes,
     RetryOn5xx : BOOLEAN,
     RetryOn429 : BOOLEAN,
     RetryOnNetworkErr : BOOLEAN]

----------------------------------------------------------------------------
(* Values: errors and responses *)

\* error value: dynamic type, message prefix, dynamic type of the wrapped error
NilErr == [dyn |-> "nil", msg |-> "", wraps |-> "nil"]

\* *http.Response; isNil marks the nil pointer
NilResp == [isNil |-> TRUE, StatusCode |-> 0, bodyClosed |-> FALSE]

Response(status) == [isNil |-> FALSE, StatusCode |-> status, bodyClosed |-> FALSE]

\* fmt.Errorf with %w returns a *fmt.wrapError whose method set is
\* Error() and Unwrap()
Errorf(m, inner) == [dyn |-> "*fmt.wrapError", msg |-> m, wraps |-> inner.dyn]

\* fmt.Errorf without %w returns the result of errors.New
ErrorfPlain(m) == [dyn |-> "*errors.errorString", msg |-> m, wraps |-> "nil"]

\* dynamic types whose method set satisfies net.Error (Timeout, Temporary)
NetErrorTypes == {"*url.Error", "*net.OpError"}

\* the type assertion err.(net.Error) looks at the dynamic type only
IsNetError(err) == err.dyn \in NetErrorTypes

\* errors the collaborators of Client.Post return
UrlError == [dyn |-> "*url.Error", msg |-> "Post", wraps |-> "*net.OpError"]
ParseError == [dyn |-> "*url.Error", msg |-> "parse", wraps |-> "nil"]
TokenError == [dyn |-> "*fmt.wrapError", msg |-> "failed to get OAuth2 token",
               wraps |-> "*oauth2.RetrieveError"]

\* what one execution of Client.Post meets: the request cannot be built,
\* the auth manager fails, the transport fails, or the server answers
Failures == {"create", "auth", "transport"}
Failed(k) == [kind |-> k, status |-> 0]
Answered(s) == [kind |-> "response", status |-> s]
Outcomes == {Failed(k) : k \in Failures} \cup {Answered(s) : s \in Statuses}
NoOutcome == [kind |-> "none", status |-> 0]

\* a Post that turns a non-2xx answer into an error
PostErrorOnNon2xx(out) ==
    IF out.kind = "create" THEN <<NilResp, Errorf("failed to create request", ParseError)>>
    ELSE IF out.kind = "auth" THEN <<NilResp, Errorf("authentication failed", TokenError)>>
    ELSE IF out.kind = "transport" THEN <<NilResp, Errorf("request failed", UrlError)>>
    ELSE IF out.status >= 200 /\ out.status < 300 THEN <<Response(out.status), NilErr>>
    ELSE <<NilResp, ErrorfPlain("unexpected status")>>

\* Client.Post: <<resp, err>> for one outcome of its collaborators
Post(out) ==
    IF out.kind = "create" THEN <<NilResp, Errorf("failed to create request", ParseError)>>
    ELSE IF out.kind = "auth" THEN <<NilResp, Errorf("authentication failed", TokenError)>>
    ELSE IF out.kind = "transport" THEN <<NilResp, Errorf("request failed", UrlError)>>
    ELSE <<Response(out.status), NilErr>>

----------------------------------------------------------------------------
(* RetryEngine: pure parts *)

\* int64 wrap-around of a value that is at most one doubling out of range
WrapDuration(x) ==
    IF x >= 2^(DurationBits - 1) THEN x - 2^DurationBits
    ELSE IF x < -(2^(DurationBits - 1)) THEN x + 2^DurationBits
    ELSE x

\* time.Duration(2^k) * d in int64 arithmetic
RECURSIVE MulPow2(_, _)
MulPow2(d, k) == IF k = 0 THEN d ELSE MulPow2(WrapDuration(2 * d), k - 1)

calculateBackoff(cfg, n) ==
    LET b == MulPow2(cfg.BackoffBase, n)
    IN  IF b > cfg.BackoffMax THEN cfg.BackoffMax ELSE b

\* isRetryable with every 4xx status treated like 429
isRetryableAll4xx(cfg, err, resp) ==
    IF err # NilErr
    THEN cfg.RetryOnNetworkErr /\ IsNetError(err)
    ELSE /\ ~resp.isNil
         /\ \/ cfg.RetryOn5xx /\ resp.StatusCode >= 500 /\ resp.StatusCode < 600
            \/ cfg.RetryOn429 /\ resp.StatusCode >= 400 /\ resp.StatusCode < 500

\* isRetryable with the 429 test guarded by the 5xx flag
isRetryableWrongFlag(cfg, err, resp) ==
    IF err # NilErr
    THEN cfg.RetryOnNetworkErr /\ IsNetError(err)
    ELSE /\ ~resp.isNil
         /\ \/ cfg.RetryOn5xx /\ resp.StatusCode >= 500 /\ resp.StatusCode < 600
            \/ cfg.RetryOn5xx /\ resp.StatusCode = StatusTooManyRequests

\* isRetryable with the 5xx range starting above 500
isRetryableAbove500(cfg, err, resp) ==
    IF err # NilErr
    THEN cfg.RetryOnNetworkErr /\ IsNetError(err)
    ELSE /\ ~resp.isNil
         /\ \/ cfg.RetryOn5xx /\ resp.StatusCode > 500 /\ resp.StatusCode < 600
            \/ cfg.RetryOn429 /\ resp.StatusCode = StatusTooManyRequests

\* isRetryable without the net.Error type assertion
isRetryableAnyErr(cfg, err, resp) ==
    IF err # NilErr
    THEN cfg.RetryOnNetworkErr
    ELSE /\ ~resp.isNil
         /\ \/ cfg.RetryOn5xx /\ resp.StatusCode >= 500 /\ resp.StatusCode < 600
            \/ cfg.RetryOn429 /\ resp.StatusCode = StatusTooManyRequests

isRetryable(cfg, err, resp) ==
    IF err # NilErr
    THEN cfg.RetryOnNetworkErr /\ IsNetError(err)
    ELSE IF ~resp.isNil
         THEN IF cfg.RetryOn5xx /\ resp.StatusCode >= 500 /\ resp.StatusCode < 600
              THEN TRUE
              ELSE IF cfg.RetryOn429 /\ resp.StatusCode = StatusTooManyRequests
                   THEN TRUE
                   ELSE IF resp.StatusCode >= 400 /\ resp.StatusCode < 500
                        THEN FALSE
                        ELSE FALSE
         ELSE FALSE

\* a success test that looks at the error only
IsSuccessAnyStatus(err, resp) == err = NilErr

\* the success test accepting 200 only
IsSuccessOnly200(err, resp) == err = NilErr /\ resp.StatusCode = 200

\* the success test of Do
IsSuccess(err, resp) ==
    err = NilErr /\ resp.StatusCode >= 200 /\ resp.StatusCode < 300

\* resp.Body.Close() on the response object
CloseBody(resp) == IF resp.isNil THEN resp ELSE [resp EXCEPT !.bodyClosed = TRUE]

\* values Do returns
CtxErr == [dyn |-> "context.Canceled", msg |-> "context canceled", wraps |-> "nil"]
NonRetryableStatus(resp) == <<resp, ErrorfPlain("non-retryable error: status")>>
NonRetryableErr(err) == <<NilResp, Errorf("non-retryable error", err)>>
ExhaustedStatus(resp) == <<resp, ErrorfPlain("max retries exceeded, last status")>>
ExhaustedErr(err) == <<NilResp, Errorf("max retries exceeded", err)>>
NoReturn == <<NilResp, NilErr>>

----------------------------------------------------------------------------
(* RetryEngine.Do as a state machine *)

InitRetry ==
    /\ config \in RetryConfig
    /\ ctxDone \in BOOLEAN
    /\ pc = "call"
    /\ attempt = 0
    /\ lastErr = NilErr
    /\ lastResp = NilResp
    /\ backoff = 0
    /\ timerFired = FALSE
    /\ woken = "none"
    /\ ret = NoReturn
    /\ calls = 0
    /\ seen = {}
    /\ lastOut = NoOutcome
    /\ waits = <<>>
    /\ cancelAt = IF ctxDone THEN "before" ELSE "never"
    /\ callsAtCancel = 0

\* a loop test that allows one attempt more
LoopContinuesOneMore(cfg, n) == n <= cfg.MaxRetries + 1

\* the loop test with < in place of <=
LoopContinuesOffByOne(cfg, n) == n < cfg.MaxRetries

\* the loop test of Do
LoopContinues(cfg, n) == n <= cfg.MaxRetries

\* the loop's next iteration after a retryable failure: attempt++, the
\* loop test, and for a further iteration calculateBackoff and time.After
NextIteration ==
    /\ attempt' = attempt + 1
    /\ IF LoopContinues(config, attempt + 1)
       THEN /\ pc' = "select"
            /\ backoff' = calculateBackoff(config, attempt + 1)
            /\ waits' = Append(waits, calculateBackoff(config, attempt + 1))
            /\ timerFired' = FALSE
            /\ woken' = "none"
            /\ ret' = ret
       ELSE /\ pc' = "done"
            /\ ret' = IF ~lastResp'.isNil THEN ExhaustedStatus(lastResp')
                      ELSE ExhaustedErr(lastErr')
            /\ UNCHANGED <<backoff, waits, timerFired, woken>>

\* a loop body that looks at the context before it calls fn
AttemptCheckingCtx(out) ==
    /\ pc = "call"
    /\ IF ctxDone
       THEN /\ pc' = "done"
            /\ ret' = <<NilResp, CtxErr>>
            /\ UNCHANGED <<calls, seen, lastOut, attempt, lastErr, lastResp,
                           backoff, waits, timerFired, woken>>
       ELSE /\ calls' = calls + 1
            /\ seen' = seen \cup {out}
            /\ lastOut' = out
            /\ LET resp == Post(out)[1]
                   err == Post(out)[2]
               IN  IF IsSuccess(err, resp)
                   THEN /\ pc' = "done"
                        /\ ret' = <<resp, NilErr>>
                        /\ UNCHANGED <<attempt, lastErr, lastResp, backoff,
                                       waits, timerFired, woken>>
                   ELSE IF ~isRetryable(config, err, resp)
                   THEN /\ lastErr' = err
                        /\ lastResp' = resp
                        /\ pc' = "done"
                        /\ ret' = IF ~resp.isNil THEN NonRetryableStatus(resp)
                                  ELSE NonRetryableErr(err)
                        /\ UNCHANGED <<attempt, backoff, waits, timerFired, woken>>
                   ELSE /\ lastErr' = err
                        /\ lastResp' = CloseBody(resp)
                        /\ NextIteration
    /\ UNCHANGED <<config, ctxDone, cancelAt, callsAtCancel>>
    /\ UNCHANGED <<authVars, writeVars, kafkaVars, unitVars>>

\* resp, err := fn() and the rest of the loop body
Attempt(out) ==
    /\ pc = "call"
    /\ calls' = calls + 1
    /\ seen' = seen \cup {out}
    /\ lastOut' = out
    /\ LET resp == Post(out)[1]
           err == Post(out)[2]
       IN  IF IsSuccess(err, resp)
           THEN /\ pc' = "done"
                /\ ret' = <<resp, NilErr>>
                /\ UNCHANGED <<attempt, lastErr, lastResp, backoff, waits,
                               timerFired, woken>>
           ELSE IF ~isRetryable(config, err, resp)
           THEN /\ lastErr' = err
                /\ lastResp' = resp
                /\ pc' = "done"
                /\ ret' = IF ~resp.isNil THEN NonRetryableStatus(resp)
                          ELSE NonRetryableErr(err)
                /\ UNCHANGED <<attempt, backoff, waits, timerFired, woken>>
           ELSE /\ lastErr' = err
                /\ lastResp' = CloseBody(resp)
                /\ NextIteration
    /\ UNCHANGED <<config, ctxDone, cancelAt, callsAtCancel>>
    /\ UNCHANGED <<authVars, writeVars, kafkaVars, unitVars>>

DoAttempt == \E out \in Outcomes : Attempt(out)

\* which case of the select runs when Do reaches it, given the channels
\* that are ready; with both ready the runtime picks one
SelectReady(timerReady, ctxReady) ==
    (IF timerReady THEN {"timer"} ELSE {}) \cup (IF ctxReady THEN {"ctx"} ELSE {})

\* a wait that goes on to the next attempt whichever case ran
TakeCaseIgnoreCtx(c) ==
    /\ pc' = "call"
    /\ ret' = ret

\* the branch of the select Do takes for a case
TakeCase(c) ==
    IF c = "timer"
    THEN /\ pc' = "call"
         /\ ret' = ret
    ELSE /\ pc' = "done"
         /\ ret' = <<NilResp, CtxErr>>

\* Do reaches the select: it takes a ready case or blocks
DoSelect ==
    /\ pc = "select"
    /\ IF SelectReady(timerFired, ctxDone) = {}
       THEN /\ pc' = "parked"
            /\ ret' = ret
       ELSE \E c \in SelectReady(timerFired, ctxDone) : TakeCase(c)
    /\ UNCHANGED <<config, ctxDone, attempt, lastErr, lastResp, backoff,
                   timerFired, woken, calls, seen, lastOut, waits,
                   cancelAt, callsAtCancel>>
    /\ UNCHANGED <<authVars, writeVars, kafkaVars, unitVars>>

\* the blocked Do resumes with the case that woke it
DoResume ==
    /\ pc = "parked"
    /\ woken # "none"
    /\ TakeCase(woken)
    /\ UNCHANGED <<config, ctxDone, attempt, lastErr, lastResp, backoff,
                   timerFired, woken, calls, seen, lastOut, waits,
                   cancelAt, callsAtCancel>>
    /\ UNCHANGED <<authVars, writeVars, kafkaVars, unitVars>>

\* the timer of time.After expires; a Do blocked in the select is woken
\* by the first channel that becomes ready
TimerFire ==
    /\ pc \in {"select", "parked"}
    /\ ~timerFired
    /\ timerFired' = TRUE
    /\ woken' = IF pc = "parked" /\ woken = "none" THEN "timer" ELSE woken
    /\ UNCHANGED <<config, ctxDone, pc, attempt, lastErr, lastResp, backoff,
                   ret, calls, seen, lastOut, waits, cancelAt,
                   callsAtCancel>>
    /\ UNCHANGED <<authVars, writeVars, kafkaVars, unitVars>>

\* the caller's context is cancelled
Cancel ==
    /\ ~ctxDone
    /\ pc # "done"
    /\ ctxDone' = TRUE
    /\ woken' = IF pc = "parked" /\ woken = "none" THEN "ctx" ELSE woken
    /\ cancelAt' = IF pc = "parked" /\ woken # "none" THEN "resuming" ELSE pc
    /\ callsAtCancel' = calls
    /\ UNCHANGED <<config, pc, attempt, lastErr, lastResp, backoff,
                   timerFired, ret, calls, seen, lastOut, waits>>
    /\ UNCHANGED <<authVars, writeVars, kafkaVars, unitVars>>

NextRetry == DoAttempt \/ DoSelect \/ DoResume \/ TimerFire \/ Cancel

----------------------------------------------------------------------------
(* OAuth2Auth: Authenticate over the caching token source *)

\* number of goroutines calling Authenticate on one OAuth2Auth
NumCallers == 3
\* Authenticate calls in one run, over all callers
MaxAuthCalls == 3
\* last instant of the clock
MaxTime == 2

\* safety margin of the cache and the lifetimes the endpoint grants
SafetyMargin == 1
TokenTTLs == {1, 3}

Callers == 1..NumCallers

\* the one token source NewOAuth2Auth builds and stores in a.tokenSource
SharedSource == 0
Sources == {SharedSource} \cup Callers

NoToken == [AccessToken |-> 0, Expiry |-> 0]

\* a call that has not read the cache yet
NoRead == [tok |-> NoToken, at |-> 0]

\* the cache holds a token that does not expire within the safety margin
Valid(t, time) == t.AccessToken # 0 /\ ~(t.Expiry <= time + SafetyMargin)

\* a token source built anew by each Authenticate call
TokenSourcePerCall(c) == c

\* the token source an Authenticate call of caller c asks: a.tokenSource
TokenSourceOf(c) == SharedSource

InitAuth ==
    /\ now = 0
    /\ tsMu = [s \in Sources |-> 0]
    /\ tsTok = [s \in Sources |-> NoToken]
    /\ apc = [c \in Callers |-> "idle"]
    /\ src = [c \in Callers |-> SharedSource]
    /\ got = [c \in Callers |-> NoToken]
    /\ hdr = [c \in Callers |-> 0]
    /\ aerr = [c \in Callers |-> FALSE]
    /\ ncalls = [c \in Callers |-> 0]
    /\ endpointCalls = 0
    /\ issued = 0
    /\ firstTok = NoToken
    /\ peak = 0
    /\ lastTok = NoToken
    /\ readTok = [c \in Callers |-> NoRead]
    /\ obtAt = [c \in Callers |-> 0]
    /\ retAt = [c \in Callers |-> 0]
    /\ renewals = [c \in Callers |-> 0]

RECURSIVE TotalCalls(_, _)
TotalCalls(n, c) == IF c = 0 THEN 0 ELSE n[c] + TotalCalls(n, c - 1)

\* a goroutine enters Authenticate and calls a.tokenSource.Token()
AuthCall(c) ==
    /\ apc[c] \in {"idle", "done"}
    /\ TotalCalls(ncalls, NumCallers) < MaxAuthCalls
    /\ apc' = [apc EXCEPT ![c] = "lock"]
    /\ src' = [src EXCEPT ![c] = TokenSourceOf(c)]
    /\ ncalls' = [ncalls EXCEPT ![c] = @ + 1]
    /\ aerr' = [aerr EXCEPT ![c] = FALSE]
    /\ hdr' = [hdr EXCEPT ![c] = 0]
    /\ got' = [got EXCEPT ![c] = NoToken]
    /\ LET inside == Cardinality({d \in Callers : apc'[d] \notin {"idle", "done"}})
       IN  peak' = IF inside > peak THEN inside ELSE peak
    /\ readTok' = [readTok EXCEPT ![c] = NoRead]
    /\ renewals' = [renewals EXCEPT ![c] = 0]
    /\ UNCHANGED <<now, tsMu, tsTok, endpointCalls, issued, firstTok, lastTok,
                   obtAt, retAt>>
    /\ UNCHANGED <<retryVars, writeVars, kafkaVars, unitVars>>

\* Token(): take the source's lock; return the cached token when it is
\* valid, otherwise send the renewal request, keeping the lock
TokenLock(c) ==
    /\ apc[c] = "lock"
    /\ tsMu[src[c]] = 0
    /\ IF Valid(tsTok[src[c]], now)
       THEN /\ got' = [got EXCEPT ![c] = tsTok[src[c]]]
            /\ apc' = [apc EXCEPT ![c] = "header"]
            /\ UNCHANGED <<tsMu, endpointCalls, renewals>>
       ELSE /\ tsMu' = [tsMu EXCEPT ![src[c]] = c]
            /\ apc' = [apc EXCEPT ![c] = "fetch"]
            /\ endpointCalls' = endpointCalls + 1
            /\ renewals' = [renewals EXCEPT ![c] = @ + 1]
            /\ got' = got
    /\ readTok' = [readTok EXCEPT ![c] = [tok |-> lastTok, at |-> now]]
    /\ obtAt' = [obtAt EXCEPT ![c] = now]
    /\ UNCHANGED <<now, tsTok, src, hdr, aerr, ncalls, issued, firstTok, peak,
                   lastTok, retAt>>
    /\ UNCHANGED <<retryVars, writeVars, kafkaVars, unitVars>>

\* the token endpoint grants a token: the cache is replaced, the lock
\* released and Token() returns the new token
TokenGranted(c, ttl) ==
    /\ apc[c] = "fetch"
    /\ LET t == [AccessToken |-> issued + 1, Expiry |-> now + ttl]
       IN  /\ tsTok' = [tsTok EXCEPT ![src[c]] = t]
           /\ got' = [got EXCEPT ![c] = t]
           /\ firstTok' = IF issued = 0 THEN t ELSE firstTok
           /\ lastTok' = t
    /\ issued' = issued + 1
    /\ tsMu' = [tsMu EXCEPT ![src[c]] = 0]
    /\ apc' = [apc EXCEPT ![c] = "header"]
    /\ obtAt' = [obtAt EXCEPT ![c] = now]
    /\ UNCHANGED <<now, src, hdr, aerr, ncalls, endpointCalls, peak, readTok,
                   retAt, renewals>>
    /\ UNCHANGED <<retryVars, writeVars, kafkaVars, unitVars>>

\* the renewal fails: the cache is left as it was, the lock released, and
\* Token() returns the error
TokenRefused(c) ==
    /\ apc[c] = "fetch"
    /\ tsMu' = [tsMu EXCEPT ![src[c]] = 0]
    /\ apc' = [apc EXCEPT ![c] = "failed"]
    /\ UNCHANGED <<now, tsTok, src, got, hdr, aerr, ncalls, endpointCalls,
                   issued, firstTok, peak, lastTok, readTok, obtAt, retAt,
                   renewals>>
    /\ UNCHANGED <<retryVars, writeVars, kafkaVars, unitVars>>

\* Authenticate dropping the error of Token() and returning nil
AuthFailSwallowed(c) ==
    /\ apc[c] = "failed"
    /\ apc' = [apc EXCEPT ![c] = "done"]
    /\ UNCHANGED <<now, tsMu, tsTok, src, got, hdr, aerr, ncalls,
                   endpointCalls, issued, firstTok, peak, lastTok, readTok,
                   obtAt, retAt, renewals>>
    /\ UNCHANGED <<retryVars, writeVars, kafkaVars, unitVars>>

\* if err != nil: Authenticate returns "failed to get OAuth2 token", the
\* request's header untouched
AuthFail(c) ==
    /\ apc[c] = "failed"
    /\ aerr' = [aerr EXCEPT ![c] = TRUE]
    /\ apc' = [apc EXCEPT ![c] = "done"]
    /\ UNCHANGED <<now, tsMu, tsTok, src, got, hdr, ncalls, endpointCalls,
                   issued, firstTok, peak, lastTok, readTok, obtAt, retAt,
                   renewals>>
    /\ UNCHANGED <<retryVars, writeVars, kafkaVars, unitVars>>

\* Authenticate writing a token it kept from the first grant instead of the
\* one Token() returned
SetHeaderKeptToken(c) ==
    /\ apc[c] = "header"
    /\ hdr' = [hdr EXCEPT ![c] = firstTok.AccessToken]
    /\ apc' = [apc EXCEPT ![c] = "done"]
    /\ retAt' = [retAt EXCEPT ![c] = now]
    /\ UNCHANGED <<now, tsMu, tsTok, src, got, aerr, ncalls, endpointCalls,
                   issued, firstTok, peak, lastTok, readTok, obtAt, renewals>>
    /\ UNCHANGED <<retryVars, writeVars, kafkaVars, unitVars>>

\* req.Header.Set("Authorization", "Bearer "+token.AccessToken); return nil
SetHeader(c) ==
    /\ apc[c] = "header"
    /\ hdr' = [hdr EXCEPT ![c] = got[c].AccessToken]
    /\ apc' = [apc EXCEPT ![c] = "done"]
    /\ retAt' = [retAt EXCEPT ![c] = now]
    /\ UNCHANGED <<now, tsMu, tsTok, src, got, aerr, ncalls, endpointCalls,
                   issued, firstTok, peak, lastTok, readTok, obtAt, renewals>>
    /\ UNCHANGED <<retryVars, writeVars, kafkaVars, unitVars>>

\* time passes
Tick ==
    /\ now < MaxTime
    /\ now' = now + 1
    /\ UNCHANGED <<tsMu, tsTok, apc, src, got, hdr, aerr, ncalls,
                   endpointCalls, issued, firstTok, peak, lastTok, readTok,
                   obtAt, retAt, renewals>>
    /\ UNCHANGED <<retryVars, writeVars, kafkaVars, unitVars>>

NextAuth ==
    \/ \E c \in Callers : AuthCall(c)
    \/ \E c \in Callers : TokenLock(c)
    \/ \E c \in Callers, ttl \in TokenTTLs : TokenGranted(c, ttl)
    \/ \E c \in Callers : TokenRefused(c)
    \/ \E c \in Callers : AuthFail(c)
    \/ \E c \in Callers : SetHeader(c)
    \/ Tick

----------------------------------------------------------------------------
(* The response Writer called by several workers *)

\* bounds of the concurrent calls explored
NumWriters == 2
MaxWrites == 3

Writers == 1..NumWriters
SinkNames == {"success", "error"}

\* record.Key: the nil Data, empty bytes, or bytes
NilKey == "<nil>"

\* the fields of an opencdc.Record generateCorrelationID can look at; ""
\* is an absent metadata entry and a nil or empty position
CorrRecords == [Metadata : {"", "meta-1"}, Position : {"", "pos-1"},
                Key : {NilKey, "", "key-1"}]
NoCorrRecord == [Metadata |-> "", Position |-> "", Key |-> NilKey]

\* uuid.New().String(): the n-th identifier handed out
UuidNames == <<"uuid-1", "uuid-2", "uuid-3", "uuid-4", "uuid-5", "uuid-6">>
Uuid(n) == UuidNames[n]

\* generateCorrelationID falls through to uuid.New() exactly in this case
NeedsUuid(record) ==
    record.Position = "" /\ (record.Key = NilKey \/ record.Key = "")

\* generateCorrelationID; n is the number of the identifier uuid.New()
\* would return
generateCorrelationID(record, n) ==
    IF record.Position # "" THEN record.Position
    ELSE IF record.Key # NilKey /\ record.Key # "" THEN record.Key
    ELSE Uuid(n)

\* a mutex that lets everyone in
CanLockAlways(holder) == TRUE

\* w.mu.Lock() returns only while nobody holds the mutex
CanLock(holder) == holder = 0

InitIdleWriter ==
    /\ wmu = 0
    /\ kpc = [w \in Writers |-> "idle"]
    /\ krec = [w \in Writers |-> NoCorrRecord]
    /\ ksink = [w \in Writers |-> "success"]
    /\ kcid = [w \in Writers |-> ""]
    /\ kcall = [w \in Writers |-> 0]
    /\ sinkFiles = [f \in SinkNames |-> <<>>]
    /\ uuids = 0
    /\ nwrites = 0
    /\ fileClosed = [f \in SinkNames |-> FALSE]
    /\ tpc = "idle"

\* a worker calls WriteSuccess or WriteError for a record
WriterCall(w, record, f) ==
    /\ kpc[w] \in {"idle", "done"}
    /\ nwrites < MaxWrites
    /\ nwrites' = nwrites + 1
    /\ kcall' = [kcall EXCEPT ![w] = nwrites + 1]
    /\ kpc' = [kpc EXCEPT ![w] = "lock"]
    /\ krec' = [krec EXCEPT ![w] = record]
    /\ ksink' = [ksink EXCEPT ![w] = f]
    /\ kcid' = [kcid EXCEPT ![w] = ""]
    /\ UNCHANGED <<wmu, sinkFiles, uuids, fileClosed, tpc>>
    /\ UNCHANGED <<retryVars, authVars, writeVars, kafkaVars, clientVars, managerVars,
                   moreVars>>

\* w.mu.Lock() and the construction of the ResponseRecord
WriterLock(w) ==
    /\ kpc[w] = "lock"
    /\ CanLock(wmu)
    /\ wmu' = w
    /\ kcid' = [kcid EXCEPT ![w] = generateCorrelationID(krec[w], uuids + 1)]
    /\ uuids' = IF NeedsUuid(krec[w]) THEN uuids + 1 ELSE uuids
    /\ kpc' = [kpc EXCEPT ![w] = "encode"]
    /\ UNCHANGED <<krec, ksink, kcall, sinkFiles, nwrites, fileClosed, tpc>>
    /\ UNCHANGED <<retryVars, authVars, writeVars, kafkaVars, clientVars, managerVars,
                   moreVars>>

\* encoder.Encode: the file receives the first part of the line; on a
\* closed file the write fails, and the call returns the error through the
\* deferred w.mu.Unlock()
WriterEncode(w) ==
    /\ kpc[w] = "encode"
    /\ IF fileClosed[ksink[w]]
       THEN /\ sinkFiles' = sinkFiles
            /\ wmu' = 0
            /\ kpc' = [kpc EXCEPT ![w] = "done"]
       ELSE /\ sinkFiles' = [sinkFiles EXCEPT ![ksink[w]] =
                                Append(@, [call |-> kcall[w], part |-> 1,
                                           cid |-> kcid[w]])]
            /\ wmu' = wmu
            /\ kpc' = [kpc EXCEPT ![w] = "rest"]
    /\ UNCHANGED <<krec, ksink, kcid, kcall, uuids, nwrites, fileClosed, tpc>>
    /\ UNCHANGED <<retryVars, authVars, writeVars, kafkaVars, clientVars, managerVars,
                   moreVars>>

\* the file receives the rest of the line (a write in progress keeps the
\* descriptor until it ends); the deferred w.mu.Unlock() runs
WriterFinish(w) ==
    /\ kpc[w] = "rest"
    /\ sinkFiles' = [sinkFiles EXCEPT ![ksink[w]] =
                         Append(@, [call |-> kcall[w], part |-> 2, cid |-> kcid[w]])]
    /\ wmu' = 0
    /\ kpc' = [kpc EXCEPT ![w] = "done"]
    /\ UNCHANGED <<krec, ksink, kcid, kcall, uuids, nwrites, fileClosed, tpc>>
    /\ UNCHANGED <<retryVars, authVars, writeVars, kafkaVars, clientVars, managerVars,
                   moreVars>>

NextWriter ==
    \/ \E w \in Writers, record \in CorrRecords, f \in SinkNames :
           WriterCall(w, record, f)
    \/ \E w \in Writers : WriterLock(w)
    \/ \E w \in Writers : WriterEncode(w)
    \/ \E w \in Writers : WriterFinish(w)

\* Teardown calls Writer.Close: w.successFile.Close()
CloseSuccessFile ==
    /\ tpc = "idle"
    /\ fileClosed' = [fileClosed EXCEPT !["success"] = TRUE]
    /\ tpc' = "closing"
    /\ UNCHANGED <<wmu, kpc, krec, ksink, kcid, kcall, sinkFiles, uuids, nwrites>>
    /\ UNCHANGED <<retryVars, authVars, writeVars, kafkaVars, clientVars, managerVars,
                   moreVars>>

\* w.errorFile.Close() and the return of Close
CloseErrorFile ==
    /\ tpc = "closing"
    /\ fileClosed' = [fileClosed EXCEPT !["error"] = TRUE]
    /\ tpc' = "returned"
    /\ UNCHANGED <<wmu, kpc, krec, ksink, kcid, kcall, sinkFiles, uuids, nwrites>>
    /\ UNCHANGED <<retryVars, authVars, writeVars, kafkaVars, clientVars, managerVars,
                   moreVars>>

\* the Writer calls of the workers, and Teardown at any moment
NextTeardown ==
    \/ \E w \in Writers, record \in CorrRecords, f \in SinkNames :
           WriterCall(w, record, f)
    \/ \E w \in Writers : WriterLock(w)
    \/ \E w \in Writers : WriterEncode(w)
    \/ \E w \in Writers : WriterFinish(w)
    \/ CloseSuccessFile
    \/ CloseErrorFile

----------------------------------------------------------------------------
(* Client.Post: the request it builds *)

Methods == {"POST", "PUT", "PATCH"}
MethodPost == "POST"
AuthTypes == {"none", "basic", "bearer", "oauth2"}

\* header names as the configuration and the environment may spell them
HeaderKeys == {"Authorization", "authorization", "X-Tenant-Id", "x-tenant-id"}

\* textproto.CanonicalMIMEHeaderKey, which Header.Set applies to the name
CanonicalKey(k) ==
    IF k = "authorization" THEN "Authorization"
    ELSE IF k = "x-tenant-id" THEN "X-Tenant-Id"
    ELSE k

CanonicalKeys == {CanonicalKey(k) : k \in HeaderKeys} \cup {"Content-Type"}

\* a header value: who set it, and under which configured name
NoValue == [from |-> "none", key |-> ""]
Value(who, k) == [from |-> who, key |-> k]

\* req.Header.Set(k, v)
Set(h, k, v) == [h EXCEPT ![CanonicalKey(k)] = v]

\* for k, v := range m { req.Header.Set(k, v) } with the keys visited in
\* the order the runtime picked
RECURSIVE ApplyHeaders(_, _, _)
ApplyHeaders(h, who, order) ==
    IF order = <<>> THEN h
    ELSE ApplyHeaders(Set(h, Head(order), Value(who, Head(order))), who, Tail(order))

\* the orders in which a range over a map with key set S can visit it
Orders(S) ==
    {o \in [1..Cardinality(S) -> S] : \A i, j \in 1..Cardinality(S) : o[i] = o[j] => i = j}

\* the header of a new request
EmptyHeader == [k \in CanonicalKeys |-> NoValue]

\* the environment headers applied before the static ones
HeaderBeforeAuthEnvFirst(so, eo) ==
    ApplyHeaders(
        ApplyHeaders(Set(EmptyHeader, "Content-Type", Value("client", "application/json")),
                     "env", eo),
        "static", so)

\* the header Post has built when it calls the auth manager: content type,
\* then static headers, then environment headers
HeaderBeforeAuth(so, eo) ==
    ApplyHeaders(
        ApplyHeaders(Set(EmptyHeader, "Content-Type", Value("client", "application/json")),
                     "static", so),
        "env", eo)

\* Authenticate of the manager of type t on a request with header h, when
\* it returns nil: NoneAuth leaves the request alone, the others set
\* Authorization
Authenticate(t, h) ==
    IF t = "none" THEN h ELSE Set(h, "Authorization", Value("auth", t))

NoRequest == [Method |-> "", Header |-> EmptyHeader]

\* what Post can meet: only the OAuth2 manager can fail
ClientOutcomes(t) == {o \in Outcomes : o.kind = "auth" => t = "oauth2"}

InitIdleClient ==
    /\ cfgMethod = MethodPost
    /\ staticHeaders = {}
    /\ envHeaders = {}
    /\ authType = "none"
    /\ cpc = "idle"
    /\ req = NoRequest
    /\ sent = FALSE
    /\ pout = NoOutcome
    /\ presp = NilResp
    /\ perr = NilErr

\* a Client as Open builds it from a valid configuration
InitClient ==
    /\ cfgMethod \in Methods
    /\ staticHeaders \in SUBSET HeaderKeys
    /\ envHeaders \in SUBSET HeaderKeys
    /\ authType \in AuthTypes
    /\ cpc = "idle"
    /\ req = NoRequest
    /\ sent = FALSE
    /\ pout = NoOutcome
    /\ presp = NilResp
    /\ perr = NilErr

\* one call of Client.Post
ClientPost(out, so, eo) ==
    /\ cpc = "idle"
    /\ cpc' = "posted"
    /\ pout' = out
    /\ presp' = Post(out)[1]
    /\ perr' = Post(out)[2]
    /\ req' = IF out.kind = "create" THEN NoRequest
              ELSE IF out.kind = "auth"
              THEN [Method |-> MethodPost, Header |-> HeaderBeforeAuth(so, eo)]
              ELSE [Method |-> MethodPost,
                    Header |-> Authenticate(authType, HeaderBeforeAuth(so, eo))]
    /\ sent' = (out.kind \in {"transport", "response"})
    /\ UNCHANGED <<cfgMethod, staticHeaders, envHeaders, authType>>
    /\ UNCHANGED <<retryVars, authVars, writeVars, kafkaVars, writerVars, managerVars,
                   moreVars>>

NextClient ==
    \E out \in ClientOutcomes(authType), so \in Orders(staticHeaders),
       eo \in Orders(envHeaders) : ClientPost(out, so, eo)

----------------------------------------------------------------------------
(* auth.NewManager *)

\* the auth.Config values explored; "digest" and "" are types outside the
\* supported ones
ManagerTypes == AuthTypes \cup {"digest", ""}
NilOAuth2Config == [isNil |-> TRUE, ClientID |-> "", ClientSecret |-> "", TokenURL |-> ""]
OAuth2Configs ==
    {NilOAuth2Config} \cup
    [isNil : {FALSE}, ClientID : {"", "id"}, ClientSecret : {"", "secret"},
     TokenURL : {"", "https://idp/token"}]
ManagerConfigs ==
    [Type : ManagerTypes, BasicUsername : {"", "user"}, BasicPassword : {"", "pw"},
     BearerToken : {"", "tok"}, OAuth2Config : OAuth2Configs]

\* a Manager interface value: its dynamic type and whether the pointer in
\* it points to a strategy
NilManager == [dyn |-> "nil", strategy |-> FALSE]
ManagerOf(t) == [dyn |-> t, strategy |-> TRUE]

\* NewOAuth2Auth: <<*OAuth2Auth, err>>
NewOAuth2Auth(cfg) ==
    IF cfg.isNil
    THEN <<[dyn |-> "*auth.OAuth2Auth", strategy |-> FALSE],
           ErrorfPlain("OAuth2Config is required")>>
    ELSE IF cfg.ClientID = "" \/ cfg.ClientSecret = "" \/ cfg.TokenURL = ""
    THEN <<[dyn |-> "*auth.OAuth2Auth", strategy |-> FALSE],
           ErrorfPlain("OAuth2 requires clientID, clientSecret, and tokenURL")>>
    ELSE <<ManagerOf("*auth.OAuth2Auth"), NilErr>>

\* NewManager asking for a username or a password only
NewManagerBasicEither(cfg) ==
    IF cfg.Type = "none" THEN <<ManagerOf("*auth.NoneAuth"), NilErr>>
    ELSE IF cfg.Type = "basic"
    THEN IF cfg.BasicUsername = "" /\ cfg.BasicPassword = ""
         THEN <<NilManager, ErrorfPlain("basic auth requires username and password")>>
         ELSE <<ManagerOf("*auth.BasicAuth"), NilErr>>
    ELSE IF cfg.Type = "bearer"
    THEN IF cfg.BearerToken = ""
         THEN <<NilManager, ErrorfPlain("bearer auth requires token")>>
         ELSE <<ManagerOf("*auth.BearerAuth"), NilErr>>
    ELSE IF cfg.Type = "oauth2"
    THEN IF cfg.OAuth2Config.isNil
         THEN <<NilManager, ErrorfPlain("oauth2 auth requires OAuth2Config")>>
         ELSE NewOAuth2Auth(cfg.OAuth2Config)
    ELSE <<NilManager, ErrorfPlain("unsupported auth type")>>

\* NewManager: <<Manager, err>>; in the oauth2 case the *OAuth2Auth that
\* NewOAuth2Auth returns is converted to the interface as it is
NewManager(cfg) ==
    IF cfg.Type = "none" THEN <<ManagerOf("*auth.NoneAuth"), NilErr>>
    ELSE IF cfg.Type = "basic"
    THEN IF cfg.BasicUsername = "" \/ cfg.BasicPassword = ""
         THEN <<NilManager, ErrorfPlain("basic auth requires username and password")>>
         ELSE <<ManagerOf("*auth.BasicAuth"), NilErr>>
    ELSE IF cfg.Type = "bearer"
    THEN IF cfg.BearerToken = ""
         THEN <<NilManager, ErrorfPlain("bearer auth requires token")>>
         ELSE <<ManagerOf("*auth.BearerAuth"), NilErr>>
    ELSE IF cfg.Type = "oauth2"
    THEN IF cfg.OAuth2Config.isNil
         THEN <<NilManager, ErrorfPlain("oauth2 auth requires OAuth2Config")>>
         ELSE NewOAuth2Auth(cfg.OAuth2Config)
    ELSE <<NilManager, ErrorfPlain("unsupported auth type")>>

\* Type() of a strategy
TypeOf(m) ==
    IF m.dyn = "*auth.NoneAuth" THEN "none"
    ELSE IF m.dyn = "*auth.BasicAuth" THEN "basic"
    ELSE IF m.dyn = "*auth.BearerAuth" THEN "bearer"
    ELSE IF m.dyn = "*auth.OAuth2Auth" THEN "oauth2"
    ELSE ""

InitIdleManager ==
    /\ mcfg = [Type |-> "none", BasicUsername |-> "", BasicPassword |-> "",
               BearerToken |-> "", OAuth2Config |-> NilOAuth2Config]
    /\ mpc = "idle"
    /\ mgr = NilManager
    /\ merr = NilErr

InitManager ==
    /\ mcfg \in ManagerConfigs
    /\ mpc = "idle"
    /\ mgr = NilManager
    /\ merr = NilErr

\* one call of NewManager
NewManagerCall ==
    /\ mpc = "idle"
    /\ mpc' = "returned"
    /\ mgr' = NewManager(mcfg)[1]
    /\ merr' = NewManager(mcfg)[2]
    /\ UNCHANGED mcfg
    /\ UNCHANGED <<retryVars, authVars, writeVars, kafkaVars, writerVars, clientVars,
                   moreVars>>

NextManager == NewManagerCall

----------------------------------------------------------------------------
(* Config.Validate and Destination.Open *)

\* values of the fields Validate looks at; "GET", "digest", "xml", "brotli"
\* and "GSSAPI" lie outside the sets it accepts
ConfigMethods == Methods \cup {"GET"}
ConfigAuthTypes == AuthTypes \cup {"digest"}
ConfigMaxRetries == {-1, 0, MaxRetriesLimit, MaxRetriesLimit + 1}
SchemaTypes == {"json", "avro"}
Compressions == {"none", "gzip", "snappy", "lz4", "zstd"}
SASLMechanisms == {"PLAIN", "SCRAM-SHA-256", "SCRAM-SHA-512"}

\* the HTTP, authentication, schema and retry fields of Config
HttpSettings ==
    [URL : {"", "https://api/ingest"}, Method : ConfigMethods,
     AuthType : ConfigAuthTypes,
     BasicUsername : {"", "user"}, BasicPassword : {"", "pw"},
     BearerToken : {"", "tok"},
     OAuth2ClientID : {"", "id"}, OAuth2ClientSecret : {"", "secret"},
     OAuth2TokenURL : {"", "https://idp/token"},
     SchemaType : {"json", "xml"},
     MaxRetries : ConfigMaxRetries, RetryBackoffBase : {1},
     RetryBackoffMax : BackoffMaxes, RetryOn5xx : {TRUE}, RetryOn429 : {TRUE},
     RetryOnNetworkErr : {TRUE}]

\* the Kafka fields of Config: the defaults, and settings that differ from
\* a working one in one field
KafkaOff ==
    [KafkaEnabled |-> FALSE, KafkaBrokers |-> "", KafkaTopic |-> "http-responses",
     KafkaCompression |-> "snappy", KafkaEnableIdempotence |-> TRUE,
     KafkaSASLEnabled |-> FALSE, KafkaSASLMechanism |-> "PLAIN",
     KafkaSASLUsername |-> "", KafkaSASLPassword |-> ""]
KafkaOn == [KafkaOff EXCEPT !.KafkaEnabled = TRUE, !.KafkaBrokers = "b1:9092"]
KafkaSASL == [KafkaOn EXCEPT !.KafkaSASLEnabled = TRUE,
                             !.KafkaSASLUsername = "svc",
                             !.KafkaSASLPassword = "pw"]
KafkaSettings ==
    {KafkaOff, KafkaOn, KafkaSASL,
     [KafkaOn EXCEPT !.KafkaBrokers = ""],
     [KafkaOn EXCEPT !.KafkaTopic = ""],
     [KafkaOn EXCEPT !.KafkaCompression = "brotli"],
     [KafkaSASL EXCEPT !.KafkaSASLMechanism = "GSSAPI"],
     [KafkaSASL EXCEPT !.KafkaSASLPassword = ""]}

DestinationConfigs == {h @@ k : h \in HttpSettings, k \in KafkaSettings}

\* the retry check without its upper limit
ValidMaxRetriesNoUpper(n) == ~(n < 0)

\* the retry check of Validate
ValidMaxRetries(n) == ~(n < 0 \/ n > MaxRetriesLimit)

\* Config.Validate: the error it returns, NilErr for nil
Validate(c) ==
    IF c.URL = "" THEN ErrorfPlain("url is required")
    ELSE IF c.Method \notin Methods THEN ErrorfPlain("invalid method")
    ELSE IF c.AuthType \notin AuthTypes THEN ErrorfPlain("invalid authType")
    ELSE IF c.AuthType = "basic" /\ (c.BasicUsername = "" \/ c.BasicPassword = "")
    THEN ErrorfPlain("basicUsername and basicPassword are required for basic auth")
    ELSE IF c.AuthType = "bearer" /\ c.BearerToken = ""
    THEN ErrorfPlain("bearerToken is required for bearer auth")
    ELSE IF /\ c.AuthType = "oauth2"
            /\ (c.OAuth2ClientID = "" \/ c.OAuth2ClientSecret = "" \/ c.OAuth2TokenURL = "")
    THEN ErrorfPlain("oauth2ClientId, oauth2ClientSecret, and oauth2TokenUrl are required for oauth2 auth")
    ELSE IF ~ValidMaxRetries(c.MaxRetries)
    THEN ErrorfPlain("maxRetries must be between 0 and 10")
    ELSE IF c.SchemaType \notin SchemaTypes THEN ErrorfPlain("invalid schemaType")
    ELSE IF ~c.KafkaEnabled THEN NilErr
    ELSE IF c.KafkaBrokers = ""
    THEN ErrorfPlain("kafkaBrokers is required when kafkaEnabled is true")
    ELSE IF c.KafkaTopic = ""
    THEN ErrorfPlain("kafkaTopic is required when kafkaEnabled is true")
    ELSE IF c.KafkaCompression \notin Compressions
    THEN ErrorfPlain("invalid kafkaCompression")
    ELSE IF ~c.KafkaSASLEnabled THEN NilErr
    ELSE IF c.KafkaSASLMechanism \notin SASLMechanisms
    THEN ErrorfPlain("invalid kafkaSaslMechanism")
    ELSE IF c.KafkaSASLUsername = "" \/ c.KafkaSASLPassword = ""
    THEN ErrorfPlain("kafkaSaslUsername and kafkaSaslPassword are required when kafkaSaslEnabled is true")
    ELSE NilErr

\* the auth.Config Open hands to NewManager
AuthConfigOf(c) ==
    [Type |-> c.AuthType, BasicUsername |-> c.BasicUsername,
     BasicPassword |-> c.BasicPassword, BearerToken |-> c.BearerToken,
     OAuth2Config |-> IF c.AuthType = "oauth2"
                      THEN [isNil |-> FALSE, ClientID |-> c.OAuth2ClientID,
                            ClientSecret |-> c.OAuth2ClientSecret,
                            TokenURL |-> c.OAuth2TokenURL]
                      ELSE NilOAuth2Config]

\* the http.RetryConfig Open hands to NewRetryEngine
RetryConfigOf(c) ==
    [MaxRetries |-> c.MaxRetries, BackoffBase |-> c.RetryBackoffBase,
     BackoffMax |-> c.RetryBackoffMax, RetryOn5xx |-> c.RetryOn5xx,
     RetryOn429 |-> c.RetryOn429, RetryOnNetworkErr |-> c.RetryOnNetworkErr]

\* *RetryEngine: the nil pointer, and NewRetryEngine
NoEngine ==
    [isNil |-> TRUE,
     config |-> [MaxRetries |-> 0, BackoffBase |-> 0, BackoffMax |-> 0,
                 RetryOn5xx |-> FALSE, RetryOn429 |-> FALSE,
                 RetryOnNetworkErr |-> FALSE]]
NewRetryEngine(cfg) == [isNil |-> FALSE, config |-> cfg]

\* the error of os.MkdirAll and os.OpenFile
PathError == [dyn |-> "*fs.PathError", msg |-> "open", wraps |-> "syscall.Errno"]

\* response.NewWriter: <<whether a Writer is returned, err>>; ok is whether
\* the output directory and both files could be created
NewWriter(ok) ==
    IF ok THEN <<TRUE, NilErr>>
    ELSE <<FALSE, Errorf("failed to open success file", PathError)>>

\* the defaults of Config with a URL
DefaultConfig ==
    [URL |-> "https://api/ingest", Method |-> "POST", AuthType |-> "none",
     BasicUsername |-> "", BasicPassword |-> "", BearerToken |-> "",
     OAuth2ClientID |-> "", OAuth2ClientSecret |-> "", OAuth2TokenURL |-> "",
     SchemaType |-> "json", MaxRetries |-> 3, RetryBackoffBase |-> 1,
     RetryBackoffMax |-> 30, RetryOn5xx |-> TRUE, RetryOn429 |-> TRUE,
     RetryOnNetworkErr |-> TRUE] @@ KafkaOff

\* a Destination before Open, with the configuration the SDK parsed into it
InitIdleOpen ==
    /\ dconfig = DefaultConfig
    /\ opc = "idle"
    /\ authManager = NilManager
    /\ httpClient = FALSE
    /\ retryEngine = NoEngine
    /\ responseWriter = FALSE
    /\ operr = NilErr

InitOpen ==
    /\ dconfig \in DestinationConfigs
    /\ opc = "validate"
    /\ authManager = NilManager
    /\ httpClient = FALSE
    /\ retryEngine = NoEngine
    /\ responseWriter = FALSE
    /\ operr = NilErr

\* Open up to the return for an invalid configuration
OpenValidate ==
    /\ opc = "validate"
    /\ IF Validate(dconfig) # NilErr
       THEN /\ operr' = Errorf("config validation failed", Validate(dconfig))
            /\ opc' = "returned"
       ELSE /\ operr' = operr
            /\ opc' = "auth"
    /\ UNCHANGED <<dconfig, authManager, httpClient, retryEngine, responseWriter>>
    /\ UNCHANGED <<retryVars, authVars, writeVars, kafkaVars, writerVars,
                   clientVars, managerVars, producerVars, suspendVars>>

\* d.authManager, err = auth.NewManager(authConfig)
OpenAuthManager ==
    /\ opc = "auth"
    /\ authManager' = NewManager(AuthConfigOf(dconfig))[1]
    /\ IF NewManager(AuthConfigOf(dconfig))[2] # NilErr
       THEN /\ operr' = Errorf("failed to create auth manager",
                               NewManager(AuthConfigOf(dconfig))[2])
            /\ opc' = "returned"
       ELSE /\ operr' = operr
            /\ opc' = "client"
    /\ UNCHANGED <<dconfig, httpClient, retryEngine, responseWriter>>
    /\ UNCHANGED <<retryVars, authVars, writeVars, kafkaVars, writerVars,
                   clientVars, managerVars, producerVars, suspendVars>>

\* d.httpClient = http.NewClient(...)
OpenHttpClient ==
    /\ opc = "client"
    /\ httpClient' = TRUE
    /\ opc' = "engine"
    /\ UNCHANGED <<dconfig, authManager, retryEngine, responseWriter, operr>>
    /\ UNCHANGED <<retryVars, authVars, writeVars, kafkaVars, writerVars,
                   clientVars, managerVars, producerVars, suspendVars>>

\* d.retryEngine = http.NewRetryEngine(retryConfig)
OpenRetryEngine ==
    /\ opc = "engine"
    /\ retryEngine' = NewRetryEngine(RetryConfigOf(dconfig))
    /\ opc' = "writer"
    /\ UNCHANGED <<dconfig, authManager, httpClient, responseWriter, operr>>
    /\ UNCHANGED <<retryVars, authVars, writeVars, kafkaVars, writerVars,
                   clientVars, managerVars, producerVars, suspendVars>>

\* d.responseWriter, err = response.NewWriter(responseConfig); ok is
\* whether the directory and both files could be opened
OpenResponseWriter(ok) ==
    /\ opc = "writer"
    /\ responseWriter' = NewWriter(ok)[1]
    /\ operr' = IF NewWriter(ok)[2] = NilErr THEN NilErr
                ELSE Errorf("failed to create response writer", NewWriter(ok)[2])
    /\ opc' = "returned"
    /\ UNCHANGED <<dconfig, authManager, httpClient, retryEngine>>
    /\ UNCHANGED <<retryVars, authVars, writeVars, kafkaVars, writerVars,
                   clientVars, managerVars, producerVars, suspendVars>>

NextOpen ==
    \/ OpenValidate
    \/ OpenAuthManager
    \/ OpenHttpClient
    \/ OpenRetryEngine
    \/ \E ok \in BOOLEAN : OpenResponseWriter(ok)

----------------------------------------------------------------------------
(* kafka.NewProducer *)

\* the kafka.Config values explored; "brotli" and "GSSAPI" are values
\* NewProducer has no case for
ProducerConfigs ==
    [Compression : Compressions \cup {"brotli"}, EnableIdempotence : BOOLEAN,
     SASLEnabled : BOOLEAN, SASLMechanism : SASLMechanisms \cup {"GSSAPI"},
     TLSEnabled : BOOLEAN]

DefaultProducerConfig ==
    [Compression |-> "snappy", EnableIdempotence |-> TRUE, SASLEnabled |-> FALSE,
     SASLMechanism |-> "PLAIN", TLSEnabled |-> FALSE]

\* the options every producer starts with
BaseOpts == <<"SeedBrokers", "ClientID", "AllowAutoTopicCreation">>

\* the compression option of the switch
CompressionOpt(c) ==
    IF c = "gzip" THEN "ProducerBatchCompression(Gzip)"
    ELSE IF c = "snappy" THEN "ProducerBatchCompression(Snappy)"
    ELSE IF c = "lz4" THEN "ProducerBatchCompression(Lz4)"
    ELSE IF c = "zstd" THEN "ProducerBatchCompression(Zstd)"
    ELSE IF c = "none" THEN "ProducerBatchCompression(None)"
    ELSE "ProducerBatchCompression(Snappy)"

\* the options added under cfg.EnableIdempotence
IdempotenceOpts(enable) ==
    IF enable THEN <<"RequiredAcks(AllISRAcks)", "DisableIdempotentWrite">>
    ELSE <<>>

\* the options of the SASL switch; an unsupported mechanism has none
SASLOpts(cfg) ==
    IF cfg.SASLEnabled /\ cfg.SASLMechanism \in SASLMechanisms
    THEN <<"SASL">> ELSE <<>>

TLSOpts(cfg) == IF cfg.TLSEnabled THEN <<"DialTLSConfig">> ELSE <<>>

\* the options NewProducer hands to kgo.NewClient
OptsOf(cfg) ==
    Append(BaseOpts, CompressionOpt(cfg.Compression))
        \o IdempotenceOpts(cfg.EnableIdempotence) \o SASLOpts(cfg) \o TLSOpts(cfg)

InitIdleProducer ==
    /\ producerCfg = DefaultProducerConfig
    /\ producerPc = "idle"
    /\ producerOpts = <<>>
    /\ producer = FALSE
    /\ clientOpen = FALSE
    /\ producerErr = NilErr

InitProducer ==
    /\ producerCfg \in ProducerConfigs
    /\ producerPc = "options"
    /\ producerOpts = <<>>
    /\ producer = FALSE
    /\ clientOpen = FALSE
    /\ producerErr = NilErr

\* NewProducer up to kgo.NewClient: the options, or the return for an
\* unsupported SASL mechanism
ProducerOptions ==
    /\ producerPc = "options"
    /\ IF producerCfg.SASLEnabled /\ producerCfg.SASLMechanism \notin SASLMechanisms
       THEN /\ producerOpts' =
                   Append(BaseOpts, CompressionOpt(producerCfg.Compression))
                       \o IdempotenceOpts(producerCfg.EnableIdempotence)
            /\ producerErr' = ErrorfPlain("unsupported SASL mechanism")
            /\ producerPc' = "returned"
       ELSE /\ producerOpts' = OptsOf(producerCfg)
            /\ producerErr' = producerErr
            /\ producerPc' = "client"
    /\ UNCHANGED <<producerCfg, producer, clientOpen>>
    /\ UNCHANGED <<retryVars, authVars, writeVars, kafkaVars, writerVars,
                   clientVars, managerVars, openVars, suspendVars>>

\* client, err := kgo.NewClient(opts...)
ProducerNewClient(ok) ==
    /\ producerPc = "client"
    /\ clientOpen' = ok
    /\ producerErr' = IF ok THEN producerErr
                      ELSE Errorf("failed to create Kafka client",
                                  ErrorfPlain("invalid option"))
    /\ producerPc' = IF ok THEN "ping" ELSE "returned"
    /\ UNCHANGED <<producerCfg, producerOpts, producer>>
    /\ UNCHANGED <<retryVars, authVars, writeVars, kafkaVars, writerVars,
                   clientVars, managerVars, openVars, suspendVars>>

\* client.Ping(ctx), then the Producer or client.Close() and the error
ProducerPing(ok) ==
    /\ producerPc = "ping"
    /\ producer' = ok
    /\ clientOpen' = ok
    /\ producerErr' = IF ok THEN producerErr
                      ELSE Errorf("failed to connect to Kafka brokers", UrlError)
    /\ producerPc' = "returned"
    /\ UNCHANGED <<producerCfg, producerOpts>>
    /\ UNCHANGED <<retryVars, authVars, writeVars, kafkaVars, writerVars,
                   clientVars, managerVars, openVars, suspendVars>>

NextProducer ==
    \/ ProducerOptions
    \/ \E ok \in BOOLEAN : ProducerNewClient(ok)
    \/ \E ok \in BOOLEAN : ProducerPing(ok)

----------------------------------------------------------------------------
(* One delivery of Write and the operations it can be suspended in *)

\* bound of the retries of the delivery explored
MaxRetriesSuspend == 2

SuspendConfigs ==
    [MaxRetries : 0..MaxRetriesSuspend, BackoffBase : {1},
     BackoffMax : BackoffMaxes, RetryOn5xx : BOOLEAN, RetryOn429 : {TRUE},
     RetryOnNetworkErr : {TRUE}]

\* what the endpoint does with a request that reached it
SuspendOutcomes == {Failed("transport"), Answered(200), Answered(404), Answered(500)}

InitIdleSuspend ==
    /\ sconfig = [MaxRetries |-> 3, BackoffBase |-> 1, BackoffMax |-> 30,
                  RetryOn5xx |-> TRUE, RetryOn429 |-> TRUE,
                  RetryOnNetworkErr |-> TRUE]
    /\ sauthType = "none"
    /\ sctxDone = FALSE
    /\ spc = "idle"
    /\ sattempt = 0
    /\ tokenCached = FALSE
    /\ sresp = 0
    /\ serr = "nil"
    /\ cancelledIn = "never"

\* Write has prepared the body of a record and calls retryEngine.Do
InitSuspend ==
    /\ sconfig \in SuspendConfigs
    /\ sauthType \in {"none", "oauth2"}
    /\ sctxDone \in BOOLEAN
    /\ spc = "post"
    /\ sattempt = 0
    /\ tokenCached \in BOOLEAN
    /\ sresp = 0
    /\ serr = "nil"
    /\ cancelledIn = IF sctxDone THEN "before" ELSE "never"

\* Do has returned resp, err to Write: the Writer call that follows reads
\* the body of a response whose body is open, then encodes the record
AfterDo(status, kind, bodyOpen) ==
    /\ sresp' = status
    /\ serr' = kind
    /\ spc' = IF bodyOpen THEN "body" ELSE "encode"

\* fn() is called: Post builds the request and calls Authenticate; the
\* OAuth2 manager asks its token source, which answers from the cache or
\* sends a request under context.Background(); then httpClient.Do(req)
SuspendPost ==
    /\ spc = "post"
    /\ spc' = IF sauthType = "oauth2" /\ ~tokenCached THEN "token" ELSE "http"
    /\ UNCHANGED <<sconfig, sauthType, sctxDone, sattempt, tokenCached, sresp,
                   serr, cancelledIn>>
    /\ UNCHANGED <<retryVars, authVars, writeVars, kafkaVars, writerVars,
                   clientVars, managerVars, openVars, producerVars>>

\* the token endpoint answers: Token() returns, and Authenticate either
\* sets the header or fails, which Do does not retry
TokenAnswer(ok) ==
    /\ spc = "token"
    /\ IF ok
       THEN /\ tokenCached' = TRUE
            /\ spc' = "http"
            /\ UNCHANGED <<sresp, serr>>
       ELSE /\ tokenCached' = tokenCached
            /\ AfterDo(0, "auth", FALSE)
    /\ UNCHANGED <<sconfig, sauthType, sctxDone, sattempt, cancelledIn>>
    /\ UNCHANGED <<retryVars, authVars, writeVars, kafkaVars, writerVars,
                   clientVars, managerVars, openVars, producerVars>>

\* the rest of the loop body of Do for what Post returned; cause is what
\* the error chain of a permanent failure ends in
SuspendClassify(out, cause) ==
    LET resp == Post(out)[1]
        err == Post(out)[2]
    IN  IF IsSuccess(err, resp)
        THEN /\ AfterDo(resp.StatusCode, "nil", TRUE)
             /\ sattempt' = sattempt
        ELSE IF ~isRetryable(sconfig, err, resp)
        THEN /\ AfterDo(resp.StatusCode, cause, ~resp.isNil)
             /\ sattempt' = sattempt
        ELSE /\ sattempt' = sattempt + 1
             /\ IF LoopContinues(sconfig, sattempt + 1)
                THEN /\ spc' = "select"
                     /\ UNCHANGED <<sresp, serr>>
                ELSE AfterDo(resp.StatusCode, "exhausted", FALSE)

\* httpClient.Do returns because the endpoint answered or the transport
\* failed
HttpAnswer(out) ==
    /\ spc = "http"
    /\ SuspendClassify(out, "permanent")
    /\ UNCHANGED <<sconfig, sauthType, sctxDone, tokenCached, cancelledIn>>
    /\ UNCHANGED <<retryVars, authVars, writeVars, kafkaVars, writerVars,
                   clientVars, managerVars, openVars, producerVars>>

\* httpClient.Do returns the error of the request's cancelled context
HttpCancelled ==
    /\ spc = "http"
    /\ sctxDone
    /\ SuspendClassify(Failed("transport"), "permanent: context canceled")
    /\ UNCHANGED <<sconfig, sauthType, sctxDone, tokenCached, cancelledIn>>
    /\ UNCHANGED <<retryVars, authVars, writeVars, kafkaVars, writerVars,
                   clientVars, managerVars, openVars, producerVars>>

\* case <-time.After(backoff)
SelectTimer ==
    /\ spc = "select"
    /\ spc' = "post"
    /\ UNCHANGED <<sconfig, sauthType, sctxDone, sattempt, tokenCached, sresp,
                   serr, cancelledIn>>
    /\ UNCHANGED <<retryVars, authVars, writeVars, kafkaVars, writerVars,
                   clientVars, managerVars, openVars, producerVars>>

\* case <-ctx.Done(): return nil, ctx.Err()
SelectCancelled ==
    /\ spc = "select"
    /\ sctxDone
    /\ AfterDo(0, "cancelled", FALSE)
    /\ UNCHANGED <<sconfig, sauthType, sctxDone, sattempt, tokenCached,
                   cancelledIn>>
    /\ UNCHANGED <<retryVars, authVars, writeVars, kafkaVars, writerVars,
                   clientVars, managerVars, openVars, producerVars>>

\* io.ReadAll(resp.Body) returns: the endpoint has sent the whole body
BodyArrives ==
    /\ spc = "body"
    /\ spc' = "encode"
    /\ UNCHANGED <<sconfig, sauthType, sctxDone, sattempt, tokenCached, sresp,
                   serr, cancelledIn>>
    /\ UNCHANGED <<retryVars, authVars, writeVars, kafkaVars, writerVars,
                   clientVars, managerVars, openVars, producerVars>>

\* io.ReadAll(resp.Body) returns the error of the request's cancelled
\* context: WriteSuccess returns it, WriteError goes on to encode
BodyCancelled ==
    /\ spc = "body"
    /\ sctxDone
    /\ spc' = IF serr = "nil" THEN "returned" ELSE "encode"
    /\ UNCHANGED <<sconfig, sauthType, sctxDone, sattempt, tokenCached, sresp,
                   serr, cancelledIn>>
    /\ UNCHANGED <<retryVars, authVars, writeVars, kafkaVars, writerVars,
                   clientVars, managerVars, openVars, producerVars>>

\* encoder.Encode to the file; the Writer call and the delivery return
SuspendEncode ==
    /\ spc = "encode"
    /\ spc' = "returned"
    /\ UNCHANGED <<sconfig, sauthType, sctxDone, sattempt, tokenCached, sresp,
                   serr, cancelledIn>>
    /\ UNCHANGED <<retryVars, authVars, writeVars, kafkaVars, writerVars,
                   clientVars, managerVars, openVars, producerVars>>

\* the cached token expires
TokenExpire ==
    /\ tokenCached
    /\ spc \notin {"idle", "returned"}
    /\ tokenCached' = FALSE
    /\ UNCHANGED <<sconfig, sauthType, sctxDone, spc, sattempt, sresp, serr,
                   cancelledIn>>
    /\ UNCHANGED <<retryVars, authVars, writeVars, kafkaVars, writerVars,
                   clientVars, managerVars, openVars, producerVars>>

\* the surrounding context is cancelled
SuspendCancel ==
    /\ ~sctxDone
    /\ spc \notin {"idle", "returned"}
    /\ sctxDone' = TRUE
    /\ cancelledIn' = spc
    /\ UNCHANGED <<sconfig, sauthType, spc, sattempt, tokenCached, sresp, serr>>
    /\ UNCHANGED <<retryVars, authVars, writeVars, kafkaVars, writerVars,
                   clientVars, managerVars, openVars, producerVars>>

\* the steps the delivery takes by itself, without an event from outside
SuspendOwnSteps ==
    \/ SuspendPost
    \/ HttpCancelled
    \/ SelectCancelled
    \/ BodyCancelled
    \/ SuspendEncode

NextSuspend ==
    \/ SuspendPost
    \/ \E ok \in BOOLEAN : TokenAnswer(ok)
    \/ \E out \in SuspendOutcomes : HttpAnswer(out)
    \/ HttpCancelled
    \/ SelectTimer
    \/ SelectCancelled
    \/ BodyArrives
    \/ BodyCancelled
    \/ SuspendEncode
    \/ TokenExpire
    \/ SuspendCancel

\* the parts of the program a specification leaves at rest
InitIdleKafka == kafkaEnabled = FALSE /\ kafkaTopic = <<>>
InitIdleMore == InitIdleOpen /\ InitIdleProducer /\ InitIdleSuspend
InitIdleUnits ==
    InitIdleWriter /\ InitIdleClient /\ InitIdleManager /\ InitIdleMore

----------------------------------------------------------------------------
(* Destination.Write with the response Writer *)

\* bounds of the batches explored
MaxBatch == 2
MaxRetriesWrite == 1

\* opencdc.Data of a payload; Nil is the nil interface value
Nil == 0
AfterData == 1
BeforeData == 2
Records == [After : {Nil, AfterData}, Before : {Nil, BeforeData}]
Batches == UNION {[1..n -> Records] : n \in 0..MaxBatch}

\* retry policies Write runs under
WriteConfigs == [MaxRetries : 0..MaxRetriesWrite, BackoffBase : {1},
                 BackoffMax : BackoffMaxes, RetryOn5xx : BOOLEAN,
                 RetryOn429 : BOOLEAN, RetryOnNetworkErr : BOOLEAN]

\* what the endpoint and Client.Post's collaborators do during Write
WriteOutcomes == {Failed(k) : k \in Failures} \cup
                 {Answered(s) : s \in {200, 404, StatusTooManyRequests, 500}}

\* prepareRequestBody taking Before ahead of After
prepareRequestBodyBeforeFirst(use, record) ==
    IF record.Before # Nil THEN <<record.Before, NilErr>>
    ELSE IF use /\ record.After # Nil THEN <<record.After, NilErr>>
    ELSE <<Nil, ErrorfPlain("record has no payload")>>

\* prepareRequestBody sending an empty body for a record without payload
prepareRequestBodyEmpty(use, record) ==
    IF use /\ record.After # Nil THEN <<record.After, NilErr>>
    ELSE <<record.Before, NilErr>>

\* prepareRequestBody: <<body, err>>
prepareRequestBody(use, record) ==
    IF use /\ record.After # Nil THEN <<record.After, NilErr>>
    ELSE IF record.Before # Nil THEN <<record.Before, NilErr>>
    ELSE <<Nil, ErrorfPlain("record has no payload")>>

\* the bytes the server sent in the body of a response; they name the
\* response
BodyOf(resp) == resp.StatusCode

\* io.ReadAll(resp.Body): a closed body yields no bytes and an error
ReadAll(resp) == IF resp.bodyClosed THEN Nil ELSE BodyOf(resp)

\* the ResponseRecord WriteSuccess builds (correlation stands for the record)
SuccessRecord(i, resp) ==
    [HTTPStatus |-> resp.StatusCode, ResponseBody |-> ReadAll(resp),
     ErrorMessage |-> "", correlation |-> i]

\* the ResponseRecord WriteError builds
ErrorRecord(i, err, resp) ==
    [HTTPStatus |-> IF resp.isNil THEN 0 ELSE resp.StatusCode,
     ResponseBody |-> IF resp.isNil THEN Nil ELSE ReadAll(resp),
     ErrorMessage |-> err.msg, correlation |-> i]

\* a WriteSuccess handed to the background: nothing is written when it
\* returns
WriteSuccessAsync(i, resp, ok) ==
    /\ sinkCalls' = sinkCalls
    /\ successFile' = successFile
    /\ errorFile' = errorFile

\* Writer.WriteSuccess; ok is whether reading the body and encoding to the
\* file both succeed
WriteSuccess(i, resp, ok) ==
    /\ sinkCalls' = Append(sinkCalls, [sink |-> "success", idx |-> i, ok |-> ok])
    /\ successFile' = IF ok THEN Append(successFile, SuccessRecord(i, resp))
                      ELSE successFile
    /\ errorFile' = errorFile

\* a WriteError that takes back the success records of the batch
WriteErrorRollingBack(i, err, resp, ok) ==
    /\ sinkCalls' = Append(sinkCalls, [sink |-> "error", idx |-> i, ok |-> ok])
    /\ errorFile' = IF ok THEN Append(errorFile, ErrorRecord(i, err, resp))
                    ELSE errorFile
    /\ successFile' = <<>>

\* Writer.WriteError; ok is whether encoding to the file succeeds
WriteError(i, err, resp, ok) ==
    /\ sinkCalls' = Append(sinkCalls, [sink |-> "error", idx |-> i, ok |-> ok])
    /\ errorFile' = IF ok THEN Append(errorFile, ErrorRecord(i, err, resp))
                    ELSE errorFile
    /\ successFile' = successFile

\* the error of a failed sink write
SinkError == [dyn |-> "*fmt.wrapError", msg |-> "failed to write record",
              wraps |-> "*fs.PathError"]

\* a Write that goes on with the batch whatever Do returned
DeliveryErrorDropped(err, sinkOk) == NilErr

\* the sink's error taking the place of the delivery error
DeliveryErrorMasked(err, sinkOk) == IF sinkOk THEN err ELSE SinkError

\* the error Write goes on with after the Writer call: the result of
\* WriteError is dropped, that of WriteSuccess only logged
DeliveryError(err, sinkOk) == err

\* a count that includes the failing record
ReturnedCountInclusive(i) == i + 1

\* the count Write returns with an error: return i, ...
ReturnedCount(i) == i

\* routing that takes every answered request for a success
SinkOfAnyResponse(resp, err) == IF resp.isNil THEN "error" ELSE "success"

\* the sink Write hands the outcome of Do to
SinkOf(resp, err) ==
    IF err # NilErr THEN "error"
    ELSE IF resp.StatusCode >= 200 /\ resp.StatusCode < 300 THEN "success"
    ELSE "error"

NoWriteReturn == <<0, NilErr>>

InitIdleWrite ==
    /\ records = <<>>
    /\ usePayloadAfter = TRUE
    /\ idx = 0
    /\ wpc = "idle"
    /\ body = Nil
    /\ successFile = <<>>
    /\ errorFile = <<>>
    /\ sinkCalls = <<>>
    /\ deliveries = <<>>
    /\ wret = NoWriteReturn

\* Write is called with a batch
InitWrite ==
    /\ records \in Batches
    /\ usePayloadAfter \in BOOLEAN
    /\ idx = 0
    /\ wpc = "loop"
    /\ body = Nil
    /\ successFile = <<>>
    /\ errorFile = <<>>
    /\ sinkCalls = <<>>
    /\ deliveries = <<>>
    /\ wret = NoWriteReturn
    /\ config \in WriteConfigs
    /\ ctxDone \in BOOLEAN
    /\ pc = "idle"
    /\ attempt = 0
    /\ lastErr = NilErr
    /\ lastResp = NilResp
    /\ backoff = 0
    /\ timerFired = FALSE
    /\ woken = "none"
    /\ ret = NoReturn
    /\ calls = 0
    /\ seen = {}
    /\ lastOut = NoOutcome
    /\ waits = <<>>
    /\ cancelAt = IF ctxDone THEN "before" ELSE "never"
    /\ callsAtCancel = 0
    /\ InitAuth
    /\ kafkaEnabled \in BOOLEAN
    /\ kafkaTopic = <<>>
    /\ InitIdleUnits

\* top of the loop body: prepareRequestBody, then either the error return
\* or the call of retryEngine.Do
WritePrepare ==
    /\ wpc = "loop"
    /\ idx < Len(records)
    /\ LET b == prepareRequestBody(usePayloadAfter, records[idx + 1])[1]
           err == prepareRequestBody(usePayloadAfter, records[idx + 1])[2]
       IN  IF err # NilErr
           THEN /\ \E ok \in BOOLEAN : WriteError(idx, err, NilResp, ok)
                /\ wret' = <<ReturnedCount(idx),
                             Errorf("failed to prepare request body", err)>>
                /\ wpc' = "returned"
                /\ UNCHANGED <<body, retryVars>>
           ELSE /\ body' = b
                /\ wpc' = "do"
                /\ pc' = "call"
                /\ attempt' = 0
                /\ lastErr' = NilErr
                /\ lastResp' = NilResp
                /\ backoff' = 0
                /\ timerFired' = FALSE
                /\ woken' = "none"
                /\ ret' = NoReturn
                /\ calls' = 0
                /\ seen' = {}
                /\ lastOut' = NoOutcome
                /\ waits' = <<>>
                /\ UNCHANGED <<config, ctxDone, cancelAt, callsAtCancel,
                               successFile, errorFile, sinkCalls, wret>>
    /\ UNCHANGED <<records, usePayloadAfter, idx, deliveries>>
    /\ UNCHANGED <<authVars, kafkaVars, unitVars>>

\* the delivery function Do calls: httpClient.Post with the prepared body
WriteAttempt == wpc = "do" /\ \E out \in WriteOutcomes : Attempt(out)

\* Do has returned: the error return, or the routing by status and the next
\* iteration
WriteRoute ==
    /\ wpc = "do"
    /\ pc = "done"
    /\ LET resp == ret[1]
           err == ret[2]
       IN  \E ok \in BOOLEAN :
               /\ IF SinkOf(resp, err) = "success"
                  THEN WriteSuccess(idx, resp, ok)
                  ELSE WriteError(idx,
                                  IF err # NilErr THEN err ELSE ErrorfPlain("HTTP status"),
                                  resp, ok)
               /\ IF DeliveryError(err, ok) # NilErr
                  THEN /\ wret' = <<ReturnedCount(idx),
                                    Errorf("HTTP request failed", DeliveryError(err, ok))>>
                       /\ wpc' = "returned"
                       /\ idx' = idx
                  ELSE /\ wret' = wret
                       /\ wpc' = "loop"
                       /\ idx' = idx + 1
    /\ deliveries' = Append(deliveries, [calls |-> calls, seen |-> seen,
                                         last |-> lastOut, body |-> body,
                                         resp |-> ret[1], err |-> ret[2]])
    /\ pc' = "idle"
    /\ UNCHANGED <<config, ctxDone, attempt, lastErr, lastResp, backoff,
                   timerFired, woken, ret, calls, seen, lastOut, waits,
                   cancelAt, callsAtCancel>>
    /\ UNCHANGED <<records, usePayloadAfter, body>>
    /\ UNCHANGED <<authVars, kafkaVars, unitVars>>

\* the loop is over: return len(records), nil
WriteDone ==
    /\ wpc = "loop"
    /\ idx = Len(records)
    /\ wret' = <<Len(records), NilErr>>
    /\ wpc' = "returned"
    /\ UNCHANGED <<records, usePayloadAfter, idx, body, successFile,
                   errorFile, sinkCalls, deliveries>>
    /\ UNCHANGED <<retryVars, authVars, kafkaVars, unitVars>>

\* the context of Write is cancelled while Write runs
WriteCancel == wpc # "returned" /\ Cancel

NextWrite ==
    \/ WritePrepare
    \/ WriteAttempt
    \/ DoSelect
    \/ DoResume
    \/ TimerFire
    \/ WriteCancel
    \/ WriteRoute
    \/ WriteDone

SpecWrite == InitWrite /\ [][NextWrite]_vars

\* the steps of Write that happen when every call and every wait returns:
\* all but the cancellation of the context
WriteReturns ==
    \/ WritePrepare
    \/ WriteAttempt
    \/ DoSelect
    \/ DoResume
    \/ TimerFire
    \/ WriteRoute
    \/ WriteDone

\* Write under the default settings of the payload, of Kafka and of the
\* retry flags
InitWriteFair ==
    /\ InitWrite
    /\ usePayloadAfter
    /\ ~kafkaEnabled
    /\ config.RetryOn5xx
    /\ config.RetryOn429
    /\ config.RetryOnNetworkErr

\* Write with every delivery attempt, timer and sink write returning
SpecWriteFair == InitWriteFair /\ [][NextWrite]_vars /\ WF_vars(WriteReturns)

\* one RetryEngine.Do call; the auth manager and Write are at rest
InitDo == InitRetry /\ InitAuth /\ InitIdleWrite /\ InitIdleKafka /\ InitIdleUnits
SpecRetry == InitDo /\ [][NextRetry]_vars

\* concurrent Authenticate calls on one OAuth2Auth; no delivery in progress
InitIdleRetry ==
    /\ config = [MaxRetries |-> 3, BackoffBase |-> 1, BackoffMax |-> 30,
                 RetryOn5xx |-> TRUE, RetryOn429 |-> TRUE,
                 RetryOnNetworkErr |-> TRUE]
    /\ ctxDone = FALSE
    /\ pc = "idle"
    /\ attempt = 0
    /\ lastErr = NilErr
    /\ lastResp = NilResp
    /\ backoff = 0
    /\ timerFired = FALSE
    /\ woken = "none"
    /\ ret = NoReturn
    /\ calls = 0
    /\ seen = {}
    /\ lastOut = NoOutcome
    /\ waits = <<>>
    /\ cancelAt = "never"
    /\ callsAtCancel = 0

InitAuthenticate ==
    InitIdleRetry /\ InitAuth /\ InitIdleWrite /\ InitIdleKafka /\ InitIdleUnits
SpecAuth == InitAuthenticate /\ [][NextAuth]_vars

\* concurrent calls of the response Writer; nothing else runs
InitWriter ==
    /\ InitIdleRetry /\ InitAuth /\ InitIdleWrite /\ InitIdleKafka
    /\ InitIdleWriter /\ InitIdleClient /\ InitIdleManager /\ InitIdleMore
SpecWriter == InitWriter /\ [][NextWriter]_vars

\* concurrent calls of the response Writer and one Teardown
InitTeardown ==
    /\ InitIdleRetry /\ InitAuth /\ InitIdleWrite /\ InitIdleKafka
    /\ InitIdleWriter /\ InitIdleClient /\ InitIdleManager /\ InitIdleMore
SpecTeardown == InitTeardown /\ [][NextTeardown]_vars

\* one Client.Post call; nothing else runs
InitPost ==
    /\ InitIdleRetry /\ InitAuth /\ InitIdleWrite /\ InitIdleKafka
    /\ InitIdleWriter /\ InitClient /\ InitIdleManager /\ InitIdleMore
SpecClient == InitPost /\ [][NextClient]_vars

\* one auth.NewManager call; nothing else runs
InitNewManager ==
    /\ InitIdleRetry /\ InitAuth /\ InitIdleWrite /\ InitIdleKafka
    /\ InitIdleWriter /\ InitIdleClient /\ InitManager /\ InitIdleMore
SpecManager == InitNewManager /\ [][NextManager]_vars

\* one Destination.Open call; nothing else runs
InitDestinationOpen ==
    /\ InitIdleRetry /\ InitAuth /\ InitIdleWrite /\ InitIdleKafka
    /\ InitIdleWriter /\ InitIdleClient /\ InitIdleManager /\ InitOpen
    /\ InitIdleProducer /\ InitIdleSuspend
SpecOpen == InitDestinationOpen /\ [][NextOpen]_vars

\* one kafka.NewProducer call; nothing else runs
InitNewProducer ==
    /\ InitIdleRetry /\ InitAuth /\ InitIdleWrite /\ InitIdleKafka
    /\ InitIdleWriter /\ InitIdleClient /\ InitIdleManager /\ InitIdleOpen
    /\ InitProducer /\ InitIdleSuspend
SpecProducer == InitNewProducer /\ [][NextProducer]_vars

\* one delivery; a goroutine that can take a step takes it, while the
\* endpoints, the timer and the canceller answer when they please
InitDelivery ==
    /\ InitIdleRetry /\ InitAuth /\ InitIdleWrite /\ InitIdleKafka
    /\ InitIdleWriter /\ InitIdleClient /\ InitIdleManager /\ InitIdleOpen
    /\ InitIdleProducer /\ InitSuspend
SpecSuspend ==
    InitDelivery /\ [][NextSuspend]_vars /\ WF_vars(SuspendOwnSteps)

----------------------------------------------------------------------------
(* Properties of RetryEngine.Do (checked under SpecRetry) *)

Is5xx(out) == out.kind = "response" /\ out.status >= 500 /\ out.status < 600
Is429(out) == out.kind = "response" /\ out.status = 429
Is2xx(out) == out.kind = "response" /\ out.status >= 200 /\ out.status < 300
IsTransport(out) == out.kind = "transport"

\* a status the classification table never retries
IsPermanentStatus(out) ==
    out.kind = "response" /\ ~Is2xx(out) /\ ~Is5xx(out) /\ ~Is429(out)

\* a status failure the policy marks retryable
IsRetryableStatus(out) ==
    \/ Is5xx(out) /\ config.RetryOn5xx
    \/ Is429(out) /\ config.RetryOn429

Returned == pc = "done"
Cancelled == ret[2] = CtxErr
IsExhausted(r) == r[2].msg \in {"max retries exceeded, last status", "max retries exceeded"}
IsPermanent(r) == r[2].msg \in {"non-retryable error: status", "non-retryable error"}

\* C1: when every attempt of an uncancelled Do yields a retryable status
\* failure (5xx with RetryOn5xx, 429 with RetryOn429), the delivery function
\* is invoked exactly MaxRetries+1 times and Do returns the last response
\* with the exhausted-retries error
C1_ExhaustedAfterAllAttempts ==
    (Returned /\ ~Cancelled /\ seen # {} /\ \A o \in seen : IsRetryableStatus(o))
        => /\ calls = config.MaxRetries + 1
           /\ IsExhausted(ret)
           /\ ret[2] # NilErr
           /\ ~ret[1].isNil
           /\ ret[1].StatusCode = lastOut.status

C1_Witness ==
    /\ Returned /\ ~ctxDone /\ IsExhausted(ret)
    /\ config.MaxRetries = 3 /\ calls = 4
    /\ seen = {Answered(500)}

C1_WitnessNoRetry ==
    /\ Returned /\ IsExhausted(ret)
    /\ config.MaxRetries = 0 /\ calls = 1

\* C2: a transport failure returned by Client.Post is retried when
\* RetryOnNetworkErr is true (MaxRetries+1 attempts when it persists) and
\* not retried when the flag is false (one attempt)
C2_TransportRetriedIffFlag ==
    (Returned /\ ~Cancelled /\ seen # {} /\ \A o \in seen : IsTransport(o))
        => calls = IF config.RetryOnNetworkErr THEN config.MaxRetries + 1 ELSE 1

\* what the code does with a transport failure of Client.Post: one attempt
\* whatever the flag
C2_TransportNeverRetried ==
    (lastOut.kind = "transport")
        => /\ Returned /\ IsPermanent(ret) /\ ret[1].isNil
           /\ (seen = {lastOut} => calls = 1)

\* C3: a response with a status outside [200,300), outside [500,600) and
\* other than 429 ends Do at once, for every policy, with that response and
\* the permanent-failure error; when it is the first response there has been
\* exactly one attempt
C3_PermanentStatusOneAttempt ==
    IsPermanentStatus(lastOut)
        => /\ Returned
           /\ ret = NonRetryableStatus(Response(lastOut.status))
           /\ ret[2] # NilErr
           /\ (seen = {lastOut} => calls = 1)

C3_Witness ==
    /\ lastOut = Answered(404) /\ Returned /\ calls = 1
    /\ config.RetryOn5xx /\ config.RetryOn429 /\ config.RetryOnNetworkErr
    /\ config.MaxRetries = 3

\* C4: a 429 response is retried iff RetryOn429, whatever the other flags:
\* without the flag Do ends at once with the permanent failure (one attempt
\* when it is the first response); with the flag Do ends only by exhausting
\* MaxRetries+1 attempts or by cancellation
C4_Retry429IffFlag ==
    Is429(lastOut)
        => IF config.RetryOn429
           THEN Returned => \/ Cancelled
                            \/ IsExhausted(ret) /\ attempt = config.MaxRetries + 1
           ELSE /\ Returned
                /\ ret = NonRetryableStatus(Response(429))
                /\ (seen = {lastOut} => calls = 1)

C4_WitnessNoFlag ==
    /\ Is429(lastOut) /\ ~config.RetryOn429 /\ config.RetryOn5xx
    /\ config.RetryOnNetworkErr /\ Returned /\ calls = 1
    /\ config.MaxRetries > 0

C4_Witness ==
    /\ Is429(lastOut) /\ config.RetryOn429 /\ ~config.RetryOn5xx
    /\ ~config.RetryOnNetworkErr /\ pc = "call" /\ calls = 1

\* C5: a response with status in [500,600) is retried iff RetryOn5xx,
\* whatever the other flags: without the flag Do ends at once with the
\* permanent failure (one attempt when it is the first response); with the
\* flag Do ends only by exhausting MaxRetries+1 attempts or by cancellation
C5_Retry5xxIffFlag ==
    Is5xx(lastOut)
        => IF config.RetryOn5xx
           THEN Returned => \/ Cancelled
                            \/ IsExhausted(ret) /\ attempt = config.MaxRetries + 1
           ELSE /\ Returned
                /\ ret = NonRetryableStatus(Response(lastOut.status))
                /\ (seen = {lastOut} => calls = 1)

C5_WitnessNoFlag ==
    /\ Is5xx(lastOut) /\ ~config.RetryOn5xx /\ config.RetryOn429
    /\ config.RetryOnNetworkErr /\ Returned /\ calls = 1
    /\ config.MaxRetries > 0

C5_Witness ==
    /\ lastOut = Answered(599) /\ config.RetryOn5xx /\ ~config.RetryOn429
    /\ ~config.RetryOnNetworkErr /\ pc = "call" /\ calls = 1

\* min(cap, base * 2^k) for base >= 0, without forming the product
RECURSIVE MinCapPow2(_, _, _)
MinCapPow2(cap, base, k) ==
    IF base >= cap THEN cap
    ELSE IF k = 0 THEN base
    ELSE MinCapPow2(cap, 2 * base, k - 1)

\* no wait precedes the initial attempt, one wait precedes each retry: the
\* k-th wait starts after the k-th invocation and ends before the next one
WaitsMatchCalls ==
    /\ (calls = 0 => waits = <<>>)
    /\ Len(waits) <= config.MaxRetries
    /\ (pc = "call" => Len(waits) = calls)
    /\ (pc \in {"select", "parked"} => Len(waits) = calls /\ waits[calls] = backoff)
    /\ (pc = "done" => Len(waits) \in {calls - 1, calls})

\* C6: the wait before the k-th retry is min(BackoffMax, BackoffBase * 2^k)
\* and no wait precedes the initial attempt
C6_BackoffFormula ==
    /\ WaitsMatchCalls
    /\ \A k \in 1..Len(waits) :
           waits[k] = MinCapPow2(config.BackoffMax, config.BackoffBase, k)

\* the part of C6 the code meets: the formula for every base whose product
\* with 2^k fits the duration type, and the sequence for base 1, cap 30
C6_BackoffFormulaInRange ==
    /\ WaitsMatchCalls
    /\ config.BackoffBase < 2^(DurationBits - 1 - MaxRetriesLimit)
          => \A k \in 1..Len(waits) :
                 waits[k] = MinCapPow2(config.BackoffMax, config.BackoffBase, k)
    /\ (config.BackoffBase = 1 /\ config.BackoffMax = 30)
          => \A k \in 1..Len(waits) :
                 k <= 6 => waits[k] = <<2, 4, 8, 16, 30, 30>>[k]

C6_WitnessSequence ==
    /\ config.BackoffBase = 1 /\ config.BackoffMax = 30
    /\ Len(waits) = 6

C6_WitnessOverflow ==
    /\ config.BackoffBase = HugeBase
    /\ Len(waits) >= 1 /\ waits[1] < 0

\* C7: when the context is cancelled while Do is blocked in the select of a
\* backoff wait, Do resumes with the cancellation case, returns the
\* context's error with no response, and the delivery function is not
\* invoked again
C7_CancelDuringWait ==
    cancelAt = "parked"
        => /\ calls = callsAtCancel
           /\ pc \in {"parked", "done"}
           /\ (pc = "parked" => woken = "ctx")
           /\ (pc = "done" => ret = <<NilResp, CtxErr>>)

C7_Witness ==
    /\ cancelAt = "parked" /\ pc = "done" /\ ~timerFired
    /\ calls >= 1 /\ calls <= config.MaxRetries

\* C8: as soon as an attempt returns no error and a status in [200,300), Do
\* returns that response with a nil error and makes no further attempt,
\* whatever the number of failed attempts before it
C8_SuccessReturnsAtOnce ==
    Is2xx(lastOut)
        => /\ Returned
           /\ ret = <<Response(lastOut.status), NilErr>>
           /\ calls = attempt + 1

C8_Witness ==
    /\ Is2xx(lastOut) /\ Returned /\ calls = 3 /\ ret[2] = NilErr


----------------------------------------------------------------------------
(* Properties of OAuth2Auth.Authenticate (checked under SpecAuth) *)

\* callers whose renewal request is outstanding at the token endpoint
Outstanding == {c \in Callers : apc[c] = "fetch"}

\* C9: under any interleaving of concurrent Authenticate calls on one
\* OAuth2Auth, at most one renewal request is outstanding at any time
C9_AtMostOneRenewal == Cardinality(Outstanding) <= 1

C9_Witness ==
    \E c, d \in Callers :
        /\ c # d
        /\ apc[c] = "fetch" /\ apc[d] = "lock"
        /\ src[c] = src[d]

AllFirstCallsReturned ==
    \A c \in Callers : ncalls[c] = 1 /\ apc[c] = "done" /\ ~aerr[c]

\* C10: when the N callers have each completed one Authenticate call begun
\* on an empty cache, the endpoint refused nothing and the token it granted
\* is still valid, exactly one request has reached the endpoint and every
\* caller's request carries that same access token
C10_OneRequestSameToken ==
    (AllFirstCallsReturned /\ Valid(firstTok, now))
        => /\ endpointCalls = 1
           /\ \A c \in Callers : hdr[c] = firstTok.AccessToken /\ hdr[c] # 0

\* all N callers were inside Authenticate at once and all have returned
C10_Witness ==
    /\ AllFirstCallsReturned
    /\ peak = NumCallers
    /\ endpointCalls = 1
    /\ \A c \in Callers : hdr[c] = 1

\* the call of caller c has read the cache
HasRead(c) == ncalls[c] > 0 /\ apc[c] \in {"fetch", "failed", "header", "done"}

\* the renewal request of caller c's call was refused by the endpoint
Refused(c) ==
    /\ apc[c] \in {"failed", "done"}
    /\ renewals[c] = 1
    /\ got[c] = NoToken

\* C11: a call that finds an expired token in the cache sends exactly one
\* renewal request; a call that finds a token whose expiry lies beyond the
\* safety margin sends none and returns that same token
C11_ExpiredRenewsValidReuses ==
    \A c \in Callers :
        HasRead(c) =>
            LET t == readTok[c].tok
                at == readTok[c].at
            IN  /\ (t # NoToken /\ ~Valid(t, at)) => renewals[c] = 1
                /\ Valid(t, at) =>
                       /\ renewals[c] = 0
                       /\ got[c] = t
                       /\ apc[c] \in {"header", "done"}
                       /\ apc[c] = "done" =>
                              ~aerr[c] /\ hdr[c] = t.AccessToken

\* one returned call reused a valid cached token without a renewal, and a
\* later returned call found that token expired and renewed it once
C11_Witness ==
    \E c, d \in Callers :
        /\ apc[c] = "done" /\ apc[d] = "done"
        /\ Valid(readTok[c].tok, readTok[c].at)
        /\ renewals[c] = 0 /\ hdr[c] = readTok[c].tok.AccessToken
        /\ readTok[d].tok = readTok[c].tok
        /\ ~Valid(readTok[d].tok, readTok[d].at)
        /\ renewals[d] = 1 /\ hdr[d] # 0 /\ hdr[d] # hdr[c]

\* C12: when the endpoint refuses a renewal, Authenticate returns an error
\* and writes no header, the cached token is what the call found, and the
\* next call that reads that cache sends a new renewal request
C12_RefusedRenewal ==
    /\ [](\A c \in Callers :
             (Refused(c) /\ apc[c] = "done") => (aerr[c] /\ hdr[c] = 0))
    /\ [][\A c \in Callers :
             (apc[c] = "fetch" /\ apc'[c] = "failed") =>
                 /\ tsTok' = tsTok
                 /\ tsTok'[SharedSource] = readTok[c].tok]_vars
    /\ [][\A c, d \in Callers :
             ( /\ Refused(d)
               /\ tsTok[SharedSource] = readTok[d].tok
               /\ apc[c] = "lock" /\ apc'[c] # "lock" ) =>
                 /\ apc'[c] = "fetch"
                 /\ endpointCalls' = endpointCalls + 1]_vars

\* one call returned the error of a refused renewal and another call has
\* sent the second renewal request, no token having been granted
C12_Witness ==
    \E c, d \in Callers :
        /\ Refused(d) /\ apc[d] = "done" /\ aerr[d]
        /\ apc[c] = "fetch"
        /\ endpointCalls = 2
        /\ issued = 0

\* Authenticate wrote the header within the allowance of obtaining the
\* token: at the instant Token() returned it, or, for a token taken from the
\* cache, no later than the safety margin after the cache was read
WithinAllowance(c) ==
    \/ retAt[c] = obtAt[c]
    \/ renewals[c] = 0 /\ retAt[c] <= obtAt[c] + SafetyMargin

\* C13: the token in the header of a returned call is the one the token
\* source gave that call and has not expired at the instant of return,
\* return following the token within the allowance
C13_HeaderTokenNotExpired ==
    \A c \in Callers :
        (apc[c] = "done" /\ ncalls[c] > 0 /\ ~aerr[c] /\ WithinAllowance(c)) =>
            /\ hdr[c] # 0
            /\ hdr[c] = got[c].AccessToken
            /\ got[c].Expiry > retAt[c]

\* a call returned a cached token a tick after reading it, while a newer
\* token than the first one exists
C13_Witness ==
    \E c \in Callers :
        /\ apc[c] = "done" /\ ~aerr[c]
        /\ renewals[c] = 0
        /\ retAt[c] = obtAt[c] + SafetyMargin
        /\ hdr[c] # 0
        /\ issued >= 1

----------------------------------------------------------------------------
(* Properties of Destination.Write (checked under SpecWrite) *)

\* calls of the Writer made for record i
SinkCallsFor(i) == {k \in 1..Len(sinkCalls) : sinkCalls[k].idx = i}

\* ResponseRecords of record i in a file
FileRecordsFor(f, i) == {k \in 1..Len(f) : f[k].correlation = i}

\* Write returned because preparing the body of records[idx] failed
PrepareFailed ==
    /\ wpc = "returned"
    /\ wret[2] # NilErr
    /\ Len(deliveries) = idx

\* Write returned because Do returned an error for records[idx]
DeliveryFailed ==
    /\ wpc = "returned"
    /\ wret[2] # NilErr
    /\ Len(deliveries) = idx + 1

\* the error Do returns for a permanent failure or for exhausted retries
PermanentOrExhausted(err) ==
    err.msg \in {"non-retryable error: status", "non-retryable error",
                 "max retries exceeded, last status", "max retries exceeded"}

\* C14: an attempt that fails in the auth manager ends the delivery of its
\* record whatever the retry flags are (one invocation when it is the
\* first attempt); the failure goes to the error sink and Write returns an
\* error
C14_AuthFailureNotRetried ==
    /\ (wpc = "do" /\ lastOut.kind = "auth") =>
           /\ pc = "done"
           /\ ret = NonRetryableErr(Post(lastOut)[2])
           /\ seen = {lastOut} => calls = 1
    /\ \A j \in 1..Len(deliveries) :
           deliveries[j].last.kind = "auth" =>
               /\ deliveries[j].seen = {Failed("auth")} => deliveries[j].calls = 1
               /\ deliveries[j].resp.isNil
               /\ deliveries[j].err.msg = "non-retryable error"
               /\ j = Len(deliveries)
               /\ DeliveryFailed
               /\ wret[2].msg = "HTTP request failed"
               /\ \A k \in SinkCallsFor(j - 1) : sinkCalls[k].sink = "error"
               /\ Cardinality(SinkCallsFor(j - 1)) = 1
               /\ \A k \in SinkCallsFor(j - 1) :
                      sinkCalls[k].ok =>
                          \E e \in FileRecordsFor(errorFile, j - 1) :
                              /\ errorFile[e].ErrorMessage = "non-retryable error"
                              /\ errorFile[e].HTTPStatus = 0

\* with every retry flag set and retries allowed, the first attempt of a
\* record failed in the auth manager; Write returned after that one
\* invocation and the error file holds the failure
C14_Witness ==
    /\ DeliveryFailed
    /\ config.RetryOnNetworkErr /\ config.RetryOn5xx /\ config.RetryOn429
    /\ config.MaxRetries >= 1
    /\ deliveries[idx + 1].last.kind = "auth"
    /\ deliveries[idx + 1].calls = 1
    /\ Len(errorFile) = 1

\* C15: every record whose delivery ended has exactly one call of the
\* Writer, WriteSuccess when the delivery succeeded and WriteError
\* otherwise; the files hold one ResponseRecord for it, in the matching
\* file only, unless that write failed
C15_OneSinkPerOutcome ==
    \A j \in 1..Len(deliveries) :
        LET succeeded == deliveries[j].err = NilErr
            cs == SinkCallsFor(j - 1)
            inSuccess == FileRecordsFor(successFile, j - 1)
            inError == FileRecordsFor(errorFile, j - 1)
        IN  /\ Cardinality(cs) = 1
            /\ \A k \in cs :
                   /\ sinkCalls[k].sink = IF succeeded THEN "success" ELSE "error"
                   /\ Cardinality(inSuccess) + Cardinality(inError)
                          = IF sinkCalls[k].ok THEN 1 ELSE 0
            /\ succeeded => inError = {}
            /\ ~succeeded => inSuccess = {}

\* a batch of two: the first record succeeded and is in the success file,
\* the second failed and is in the error file
C15_Witness ==
    /\ DeliveryFailed
    /\ Len(deliveries) = 2
    /\ deliveries[1].err = NilErr
    /\ Len(successFile) = 1 /\ successFile[1].correlation = 0
    /\ Len(errorFile) = 1 /\ errorFile[1].correlation = 1

\* C16: a ResponseRecord in the error file for a delivery that ended with
\* an HTTP response carries that response's status and its body
C16_ErrorRecordCarriesBody ==
    \A k \in 1..Len(errorFile) :
        LET j == errorFile[k].correlation + 1
        IN  (j <= Len(deliveries) /\ ~deliveries[j].resp.isNil) =>
                /\ errorFile[k].HTTPStatus = deliveries[j].resp.StatusCode
                /\ errorFile[k].ResponseBody = BodyOf(deliveries[j].resp)

\* C17 as stated: after a permanent failure or exhausted retries at index
\* i, Write returns an error and a count that covers record i
C17_ProgressCoversFailing ==
    (DeliveryFailed /\ PermanentOrExhausted(deliveries[idx + 1].err)) =>
        /\ wret[2] # NilErr
        /\ wret[1] >= idx + 1

\* C17: after a permanent failure or exhausted retries at index i, Write
\* returns an error that wraps Do's error, and a count that covers the
\* records before i and not record i; no later record is handed to Do
C17_ProgressStopsBeforeFailing ==
    (DeliveryFailed /\ PermanentOrExhausted(deliveries[idx + 1].err)) =>
        /\ wret[2].msg = "HTTP request failed"
        /\ wret[2].wraps = deliveries[idx + 1].err.dyn
        /\ wret[1] = idx
        /\ wret[1] < Len(records)
        /\ \A j \in 1..idx : deliveries[j].err = NilErr
        /\ Cardinality(SinkCallsFor(idx)) = 1

\* the second record of a batch ran out of retries after the first had
\* succeeded
C17_Witness ==
    /\ DeliveryFailed
    /\ idx = 1
    /\ deliveries[2].err.msg = "max retries exceeded, last status"
    /\ deliveries[2].calls = config.MaxRetries + 1
    /\ config.MaxRetries >= 1
    /\ wret[1] = 1

\* C18: when Write fails at index i the count it returns is i, the number
\* of records delivered and routed before the failure, and its error wraps
\* the cause; without a failure it returns the batch size and no error
C18_CountIsRecordsBeforeFailure ==
    wpc = "returned" =>
        IF wret[2] = NilErr
        THEN /\ wret[1] = Len(records)
             /\ Len(deliveries) = Len(records)
             /\ \A j \in 1..Len(deliveries) : deliveries[j].err = NilErr
        ELSE /\ wret[1] = idx
             /\ wret[1] = Cardinality({j \in 1..Len(deliveries) :
                                          deliveries[j].err = NilErr})
             /\ wret[1] = Cardinality({k \in 1..Len(sinkCalls) :
                                          sinkCalls[k].sink = "success"})
             /\ wret[2].dyn = "*fmt.wrapError"
             /\ IF DeliveryFailed
                THEN wret[2].wraps = deliveries[idx + 1].err.dyn
                ELSE /\ PrepareFailed
                     /\ wret[2].wraps = "*errors.errorString"

\* Write failed at the second record of a batch and returned the count 1
C18_Witness ==
    /\ wpc = "returned"
    /\ wret[2] # NilErr
    /\ wret[1] = 1
    /\ Len(records) = 2
    /\ Len(successFile) = 1

\* C19: for a record with neither After nor Before no request is made,
\* for it or for any later record: Do is never called at its index, Write
\* never passes it, and Write returns the error of the body preparation
C19_NoPayloadNoRequest ==
    \A i \in 0..(Len(records) - 1) :
        (records[i + 1].After = Nil /\ records[i + 1].Before = Nil) =>
            /\ idx <= i
            /\ Len(deliveries) <= i
            /\ wpc = "do" => idx < i
            /\ wpc = "returned" =>
                   /\ wret[2] # NilErr
                   /\ idx = i =>
                          /\ PrepareFailed
                          /\ wret[2].msg = "failed to prepare request body"
                          /\ wret[1] = i

\* the first record of a batch of two has no payload: Write returned its
\* error without any delivery, the second record untouched
C19_Witness ==
    /\ Len(records) = 2
    /\ records[1].After = Nil /\ records[1].Before = Nil
    /\ records[2].After # Nil
    /\ PrepareFailed
    /\ idx = 0
    /\ deliveries = <<>>
    /\ Len(sinkCalls) = 1

\* C20 as stated: the body is the After payload whenever the record has
\* one, else the Before payload, and preparation fails only for a record
\* with neither
C20_AfterWheneverPresent ==
    /\ wpc = "do" =>
           body = IF records[idx + 1].After # Nil THEN records[idx + 1].After
                  ELSE records[idx + 1].Before
    /\ PrepareFailed =>
           (records[idx + 1].After = Nil /\ records[idx + 1].Before = Nil)

\* C20: with UsePayloadAfter set the body is the After payload whenever
\* the record has one, else the Before payload, and preparation fails only
\* for a record with neither; with UsePayloadAfter unset the body is the
\* Before payload and preparation fails whenever the record has none
C20_AfterWhenConfigured ==
    /\ (wpc = "do" /\ usePayloadAfter) =>
           /\ body # Nil
           /\ body = IF records[idx + 1].After # Nil THEN records[idx + 1].After
                     ELSE records[idx + 1].Before
    /\ (wpc = "do" /\ ~usePayloadAfter) =>
           /\ body # Nil
           /\ body = records[idx + 1].Before
    /\ PrepareFailed =>
           /\ records[idx + 1].Before = Nil
           /\ usePayloadAfter => records[idx + 1].After = Nil
    /\ (wpc = "loop" /\ idx > 0) =>
           \/ records[idx].Before # Nil
           \/ usePayloadAfter /\ records[idx].After # Nil

\* a record with both payloads is being delivered with its After payload
C20_Witness ==
    /\ wpc = "do"
    /\ usePayloadAfter
    /\ records[idx + 1].After # Nil
    /\ records[idx + 1].Before # Nil
    /\ body = AfterData
    /\ calls >= 1


\* C21: within one Write call the Writer is called in record order, each
\* file holds its records in record order, and while a record is with Do
\* every earlier record's Writer call has returned and its own has not
\* been made
C21_RoutingInRecordOrder ==
    /\ \A k, l \in 1..Len(sinkCalls) :
           k < l => sinkCalls[k].idx < sinkCalls[l].idx
    /\ \A k, l \in 1..Len(successFile) :
           k < l => successFile[k].correlation < successFile[l].correlation
    /\ \A k, l \in 1..Len(errorFile) :
           k < l => errorFile[k].correlation < errorFile[l].correlation
    /\ wpc = "do" =>
           /\ \A i \in 0..(idx - 1) : SinkCallsFor(i) # {}
           /\ SinkCallsFor(idx) = {}

\* the second record of a batch has had an attempt; the Writer call of the
\* first record has returned
C21_Witness ==
    /\ wpc = "do"
    /\ idx = 1
    /\ calls >= 1
    /\ Len(sinkCalls) = 1
    /\ sinkCalls[1].idx = 0

\* C23: a failed write to a file leaves the delivery outcome alone: after
\* a failed WriteSuccess the record counts as processed and Write goes on
\* without an error for it; after a failed WriteError Write returns the
\* delivery error wrapped, not the Writer's
C23_SinkFailureKeepsOutcome ==
    \A k \in 1..Len(sinkCalls) :
        (~sinkCalls[k].ok /\ sinkCalls[k].idx < Len(deliveries)) =>
            LET i == sinkCalls[k].idx
                d == deliveries[i + 1]
            IN  IF d.err = NilErr
                THEN /\ sinkCalls[k].sink = "success"
                     /\ idx >= i + 1
                     /\ wpc = "returned" => wret[1] >= i + 1
                     /\ (wpc = "returned" /\ idx = Len(records)) =>
                            wret = <<Len(records), NilErr>>
                ELSE /\ sinkCalls[k].sink = "error"
                     /\ wpc = "returned"
                     /\ idx = i
                     /\ wret = <<i, Errorf("HTTP request failed", d.err)>>

\* in a batch of two both Writer calls failed: the first record still
\* counts and Write returned the delivery error of the second
C23_Witness ==
    /\ DeliveryFailed
    /\ Len(sinkCalls) = 2
    /\ ~sinkCalls[1].ok /\ sinkCalls[1].sink = "success"
    /\ ~sinkCalls[2].ok /\ sinkCalls[2].sink = "error"
    /\ wret[1] = 1
    /\ wret[2].wraps = deliveries[2].err.dyn

\* s is an initial part of t
IsPrefix(s, t) == Len(s) <= Len(t) /\ \A k \in 1..Len(s) : s[k] = t[k]

\* C24: no step of Write removes or rewrites a ResponseRecord already in a
\* file, and when Write has failed at index i the records written for the
\* records before i are all in the success file
C24_NoRollback ==
    /\ [][IsPrefix(successFile, successFile') /\ IsPrefix(errorFile, errorFile')]_vars
    /\ [](wpc = "returned" /\ wret[2] # NilErr =>
             \A k \in 1..Len(sinkCalls) :
                 (sinkCalls[k].idx < idx /\ sinkCalls[k].ok) =>
                     FileRecordsFor(successFile, sinkCalls[k].idx) # {})

\* Write failed at the second record; the success record of the first is
\* in the success file and the error record in the error file
C24_Witness ==
    /\ wpc = "returned"
    /\ wret[2] # NilErr
    /\ idx = 1
    /\ Len(successFile) = 1
    /\ Len(errorFile) = 1

\* C29: with kafkaEnabled set, every response Write has routed has a
\* message on the Kafka topic
C29_ResponsePublishedToKafka ==
    kafkaEnabled =>
        \A j \in 1..Len(deliveries) :
            ~deliveries[j].resp.isNil =>
                \E m \in 1..Len(kafkaTopic) :
                    kafkaTopic[m].StatusCode = deliveries[j].resp.StatusCode

----------------------------------------------------------------------------
(* Properties of the response Writer (checked under SpecWriter) *)

\* workers between w.mu.Lock() and the deferred Unlock
Appending == {w \in Writers : kpc[w] \in {"encode", "rest"}}

\* the chunks of a file pair up into whole lines: a first part is followed
\* by the second part of the same call, or is the last chunk while its
\* writer is still at work
WholeLines(f) ==
    \A k \in 1..Len(f) :
        /\ f[k].part = 1 =>
               IF k < Len(f)
               THEN f[k + 1].part = 2 /\ f[k + 1].call = f[k].call
               ELSE \E w \in Writers : kpc[w] = "rest" /\ kcall[w] = f[k].call
        /\ f[k].part = 2 =>
               k > 1 /\ f[k - 1].part = 1 /\ f[k - 1].call = f[k].call

\* C22: with several workers calling the Writer, at most one of them is
\* appending at any time, it holds the mutex, and each file is a sequence
\* of whole ResponseRecords
C22_SinkWritesExclusive ==
    /\ Cardinality(Appending) <= 1
    /\ \A w \in Appending : wmu = w
    /\ \A f \in SinkNames : WholeLines(sinkFiles[f])

\* one worker is in the middle of a line while another waits for the
\* mutex to write to the same file, which already holds a whole record
C22_Witness ==
    \E w, v \in Writers :
        /\ kpc[w] = "rest"
        /\ kpc[v] = "lock"
        /\ ksink[w] = ksink[v]
        /\ Len(sinkFiles[ksink[w]]) = 3

\* the call of worker w has built its ResponseRecord
HasCorrelation(w) == kpc[w] \in {"encode", "rest", "done"}

\* C25: the correlation ID is the metadata correlation field if set, else
\* the position if present, else the key if present, else a generated
\* non-empty identifier that differs between calls
C25_CorrelationPrecedence ==
    /\ \A w \in Writers :
           HasCorrelation(w) =>
               IF krec[w].Metadata # "" THEN kcid[w] = krec[w].Metadata
               ELSE IF krec[w].Position # "" THEN kcid[w] = krec[w].Position
               ELSE IF krec[w].Key # NilKey /\ krec[w].Key # ""
                    THEN kcid[w] = krec[w].Key
               ELSE kcid[w] # ""
    /\ \A w, v \in Writers :
           ( /\ w # v /\ HasCorrelation(w) /\ HasCorrelation(v)
             /\ NeedsUuid(krec[w]) /\ NeedsUuid(krec[v])
             /\ krec[w].Metadata = "" /\ krec[v].Metadata = "" ) =>
               kcid[w] # kcid[v]


----------------------------------------------------------------------------
(* Properties of Client.Post (checked under SpecClient) *)

\* the map with key set m has a key whose canonical form is c
HasKey(m, c) == \E k \in m : CanonicalKey(k) = c

C27_ErrorOnlyWithoutResponse ==
    cpc = "posted" =>
        /\ perr # NilErr <=> pout.kind \in Failures
        /\ perr # NilErr => presp.isNil
        /\ pout.kind = "response" =>
               /\ sent
               /\ perr = NilErr
               /\ presp = Response(pout.status)

\* the server answered 404 and Post returned that response with a nil
\* error
C27_Witness ==
    /\ cpc = "posted"
    /\ pout = Answered(404)
    /\ presp.StatusCode = 404
    /\ perr = NilErr

\* C28: the request Post builds uses the method of the configuration
C28_ConfiguredMethod ==
    (cpc = "posted" /\ pout.kind # "create") => req.Method = cfgMethod

----------------------------------------------------------------------------
(* Properties of auth.NewManager (checked under SpecManager) *)

\* a required field of the selected variant is missing, or the type is
\* none of the four
MissingRequired(cfg) ==
    \/ cfg.Type = "basic" /\ (cfg.BasicUsername = "" \/ cfg.BasicPassword = "")
    \/ cfg.Type = "bearer" /\ cfg.BearerToken = ""
    \/ cfg.Type = "oauth2" /\
          ( \/ cfg.OAuth2Config.isNil
            \/ cfg.OAuth2Config.ClientID = ""
            \/ cfg.OAuth2Config.ClientSecret = ""
            \/ cfg.OAuth2Config.TokenURL = "" )
    \/ cfg.Type \notin {"none", "basic", "bearer", "oauth2"}

\* C30: NewManager returns an error, and no strategy, exactly when a
\* required field of the selected variant is missing or the type is not
\* one of none, basic, bearer, oauth2; otherwise it returns a strategy
\* whose Type is the selected type
C30_ConstructionFailsIffMissing ==
    mpc = "returned" =>
        /\ merr # NilErr <=> MissingRequired(mcfg)
        /\ merr # NilErr => ~mgr.strategy
        /\ merr = NilErr => (mgr.strategy /\ TypeOf(mgr) = mcfg.Type)

\* basic auth with a username and no password was refused
C30_Witness ==
    /\ mpc = "returned"
    /\ mcfg.Type = "basic"
    /\ mcfg.BasicUsername # "" /\ mcfg.BasicPassword = ""
    /\ merr # NilErr
    /\ mgr = NilManager

----------------------------------------------------------------------------
(* Properties of Destination.Open (checked under SpecOpen) *)

\* nothing of the Destination has been built
NothingBuilt ==
    /\ authManager = NilManager
    /\ ~httpClient
    /\ retryEngine = NoEngine
    /\ ~responseWriter

\* a configuration the claim names as invalid
OutsideAllowed(c) ==
    \/ c.MaxRetries \notin 0..MaxRetriesLimit
    \/ c.Method \notin Methods
    \/ c.AuthType \notin AuthTypes

\* C31: whenever MaxRetries is outside 0..10, or the method or the auth type
\* is outside its allowed set, Open returns the validation error before it
\* has built the auth manager, the client, the retry engine or the sink;
\* hence every RetryEngine of a Destination has MaxRetries in 0..10
C31_InvalidConfigFailsBeforeBuilding ==
    /\ (OutsideAllowed(dconfig) /\ opc # "validate") =>
           /\ opc = "returned"
           /\ operr.msg = "config validation failed"
           /\ NothingBuilt
    /\ ~retryEngine.isNil => retryEngine.config.MaxRetries \in 0..MaxRetriesLimit
    /\ (opc = "returned" /\ operr = NilErr) =>
           /\ ~retryEngine.isNil
           /\ retryEngine.config.MaxRetries = dconfig.MaxRetries

\* Open has refused a configuration whose only fault is MaxRetries = 11
C31_Witness ==
    /\ opc = "returned"
    /\ dconfig.MaxRetries = MaxRetriesLimit + 1
    /\ dconfig.Method \in Methods
    /\ dconfig.AuthType = "oauth2"
    /\ dconfig.URL # ""
    /\ operr.msg = "config validation failed"
    /\ NothingBuilt

----------------------------------------------------------------------------
(* Properties of kafka.NewProducer (checked under SpecProducer) *)

\* C32: a producer created with EnableIdempotence set has idempotent writes
\* enabled (none of its options disables them), and one created without it
\* carries no option about idempotent writes
C32_IdempotenceAsConfigured ==
    (producerPc = "returned" /\ producer) =>
        /\ producerCfg.EnableIdempotence =>
               \A i \in DOMAIN producerOpts : producerOpts[i] # "DisableIdempotentWrite"
        /\ ~producerCfg.EnableIdempotence =>
               \A i \in DOMAIN producerOpts :
                   producerOpts[i] \notin {"DisableIdempotentWrite",
                                           "RequiredAcks(AllISRAcks)"}

----------------------------------------------------------------------------
(* Properties of the suspension points of a delivery (checked under
   SpecSuspend) *)

\* C33: once the surrounding context is cancelled, the delivery returns
\* without waiting for the timer, the token endpoint or the HTTP endpoint,
\* whichever of its blocking operations it is in
C33_CancelledDeliveryReturns == sctxDone ~> (spc = "returned")

----------------------------------------------------------------------------
(* Further properties of Destination.Write (checked under SpecWrite) *)

\* the Writer has been handed a failure: the call of WriteError
FailureCalls == {k \in 1..Len(sinkCalls) : sinkCalls[k].sink = "error"}

\* C34: after the record at index i has failed (its body could not be
\* prepared, or Do returned an error for it), Write has returned at index
\* i, and no step invokes the delivery function or the Writer again: no
\* record with a greater index is attempted or written
C34_NothingAfterFailure ==
    /\ [](\A k \in FailureCalls :
              /\ k = Len(sinkCalls)
              /\ wpc = "returned"
              /\ wret[2] # NilErr
              /\ idx = sinkCalls[k].idx
              /\ Len(deliveries) <= sinkCalls[k].idx + 1
              /\ \A m \in 1..Len(sinkCalls) : sinkCalls[m].idx <= sinkCalls[k].idx)
    /\ [][FailureCalls # {} =>
              /\ calls' = calls
              /\ sinkCalls' = sinkCalls
              /\ deliveries' = deliveries
              /\ successFile' = successFile
              /\ errorFile' = errorFile]_vars

\* the first record of a batch of two failed in Do: Write returned with
\* one delivery and one Writer call
C34_Witness ==
    /\ Len(records) = 2
    /\ DeliveryFailed
    /\ idx = 0
    /\ Len(deliveries) = 1
    /\ Len(sinkCalls) = 1
    /\ sinkCalls[1].sink = "error"
    /\ prepareRequestBody(usePayloadAfter, records[2])[2] = NilErr

----------------------------------------------------------------------------
(* Further properties of RetryEngine.Do (checked under SpecRetry) *)

\* C35: Do closes the body of a failed attempt's response only when another
\* attempt follows; the response it returns with the exhausted-retries or
\* the permanent-failure error has its body open
C35_ReturnedBodyOpen ==
    /\ (pc = "done" /\ (IsExhausted(ret) \/ IsPermanent(ret)) /\ ~ret[1].isNil) =>
           ~ret[1].bodyClosed
    /\ lastResp.bodyClosed => (pc # "done" \/ Cancelled \/ calls > attempt)

\* the two variants of what Do returns
SuccessVariant(resp, err) ==
    err = NilErr /\ ~resp.isNil /\ resp.StatusCode >= 200 /\ resp.StatusCode < 300
FailureVariant(resp, err) == err # NilErr

\* C36: what Do returns is a nil error with a response whose status is in
\* [200,300), or a non-nil error, never both and never neither; so Write
\* reaches its routing by status only with a 2xx response, and every
\* WriteError call for a delivered record follows the error return of Do
C36_OneOutcomeVariant ==
    /\ pc = "done" =>
           SuccessVariant(ret[1], ret[2]) # FailureVariant(ret[1], ret[2])
    /\ \A j \in 1..Len(deliveries) :
           /\ SuccessVariant(deliveries[j].resp, deliveries[j].err)
                  # FailureVariant(deliveries[j].resp, deliveries[j].err)
           /\ \A k \in SinkCallsFor(j - 1) :
                  sinkCalls[k].sink = "error" =>
                      /\ deliveries[j].err # NilErr
                      /\ DeliveryFailed
                      /\ j = Len(deliveries)

\* Do returned the 404 response of the endpoint together with an error, and
\* Write took the error return
C36_Witness ==
    /\ DeliveryFailed
    /\ deliveries[idx + 1].last = Answered(404)
    /\ ~deliveries[idx + 1].resp.isNil
    /\ deliveries[idx + 1].err.msg = "non-retryable error: status"
    /\ \E j \in 1..idx : SuccessVariant(deliveries[j].resp, deliveries[j].err)

\* C37: with a positive BackoffBase and BackoffMax, every wait Do starts
\* before a retry is greater than zero and at most BackoffMax, and the
\* waits of one delivery never decrease
C37_WaitsPositiveCappedMonotone ==
    (config.BackoffBase > 0 /\ config.BackoffMax > 0) =>
        \A k \in 1..Len(waits) :
            /\ waits[k] = calculateBackoff(config, k)
            /\ waits[k] > 0
            /\ waits[k] <= config.BackoffMax
            /\ k > 1 => waits[k - 1] <= waits[k]

----------------------------------------------------------------------------
(* Termination of Destination.Write (checked under SpecWriteFair) *)

\* C38: when every delivery attempt and every sink write returns, each Do
\* call ends after at most MaxRetries+1 invocations and MaxRetries waits,
\* and Write returns a count with a nil error, or a smaller count with an
\* error, after handing at most len(records) records to Do
C38_WriteTerminates ==
    /\ [](/\ calls <= config.MaxRetries + 1
          /\ Len(waits) <= config.MaxRetries
          /\ Len(waits) <= calls
          /\ idx <= Len(records)
          /\ Len(deliveries) <= Len(records)
          /\ Len(sinkCalls) <= Len(records)
          /\ wpc = "returned" =>
                 \/ wret[2] = NilErr /\ wret[1] = Len(records)
                 \/ wret[2] # NilErr /\ wret[1] < Len(records))
    /\ (wpc = "do") ~> (pc = "done")
    /\ <>(wpc = "returned")

\* Write has returned after a batch of two in which the second record used
\* all MaxRetries+1 attempts and MaxRetries waits
C38_Witness ==
    /\ wpc = "returned"
    /\ Len(records) = 2
    /\ Len(deliveries) = 2
    /\ config.MaxRetries >= 1
    /\ deliveries[2].calls = config.MaxRetries + 1
    /\ calls = config.MaxRetries + 1
    /\ Len(waits) = config.MaxRetries

----------------------------------------------------------------------------
(* Cancellation and the first attempt of Do (checked under SpecRetry) *)

\* C39: Do looks at the context only in the select of a backoff wait: it
\* never returns before it has invoked the delivery function, also when it
\* is called with a cancelled context, and it returns the cancellation
\* error only out of a wait that followed a failed attempt
C39_FirstAttemptIgnoresContext ==
    /\ calls = 0 => (pc = "call" /\ ret = NoReturn)
    /\ pc = "done" => calls >= 1
    /\ Cancelled =>
           /\ pc = "done"
           /\ ctxDone
           /\ calls >= 1
           /\ Len(waits) = calls
    /\ (pc = "done" /\ ~Cancelled) => Len(waits) = calls - 1

\* Do was called with a cancelled context, invoked the delivery function
\* once, and returned the cancellation error from the wait after it
C39_Witness ==
    /\ cancelAt = "before"
    /\ pc = "done"
    /\ Cancelled
    /\ calls = 1

----------------------------------------------------------------------------
(* Properties of Writer.Close (checked under SpecTeardown) *)

\* a WriteSuccess or WriteError call holds w.mu
WriteInProgress == wmu # 0

====
